---- MODULE Spec2Model ----
(***************************************************************************)
(* Session-orchestration engine of XtermOrchestrator: the TerminalManager  *)
(* (registry, eviction timers, handoff records), the PTY processes it      *)
(* owns, and the OrchestratorCommands service (control session, line       *)
(* interceptor, command dispatcher).                                       *)
(*                                                                         *)
(* Text is modelled as sequences of one-character strings.  Every handler  *)
(* is an operator from a machine state (a record of all program state) to  *)
(* the machine state after the handler has run to completion; an action    *)
(* commits the result of one handler.                                      *)
(***************************************************************************)
EXTENDS Integers, Sequences, FiniteSets, TLC

VARIABLES
    maxTerminals,         \* TerminalManager.maxTerminals: the configured maximum
    terminals,            \* TerminalManager.terminals: Map in insertion order
    terminalTimeouts,     \* TerminalManager.terminalTimeouts: id -> timer handle
    agentHandoffs,        \* TerminalManager.agentHandoffs: id -> handoff record
    timers,               \* pending setTimeout timers of the event loop
    procs,                \* the ptyProcess objects ever spawned, with their closures
    nextId,               \* next fresh uuid
    orchestratorTerminal, \* OrchestratorCommands.orchestratorTerminal (cached reference)
    inputBuffer,          \* OrchestratorCommands.inputBuffer
    typedLine,            \* the control-session line under edit, as its user sees it
    destroyed,            \* the ids whose destroy request has succeeded
    router,               \* MessageRouter: handlers, middleware, onDisconnectionCallbacks
    readyState,           \* ws.readyState of every client connection
    rejected,             \* the connections that have been answered "Invalid message format"
    outputBufferLimit,    \* the length beyond which a session's outputBuffer is shifted
    sentSince,            \* per connection: the control-session text it sent since its last
                          \* terminator, erase keys aside
    log,                  \* what the last handler sent to clients and wrote to processes, in order
    lastOp                \* the handler that ran last, and its arguments

vars == <<maxTerminals, terminals, terminalTimeouts, agentHandoffs, timers, procs, nextId,
          orchestratorTerminal, inputBuffer, typedLine, destroyed, router, readyState,
          rejected, outputBufferLimit, sentSince, log, lastOp>>

----------------------------------------------------------------------------
(* Bounds of the model *)

MaxTerminals == 1
MaxIds == 2
Window == 1
MaxHandoffs == 1
MaxLine == 8
MaxTransitions == 2
MaxMiddleware == 2
MaxCallbacks == 2
MaxConnections == 3
MaxOutputBuffer == 2

Ids == 1..MaxIds

\* the uuids of a pool that sees a third create at a capacity of two
PoolIds == 1..(MaxIds + 1)
Conns == {"c1"}

\* the client connections the gateway holds
Sockets == {"c1", "c2"}

NoTerminal == 0

----------------------------------------------------------------------------
(* Text *)

LowerCase == {"a","b","c","d","e","f","g","h","i","j","k","l","m",
              "n","o","p","q","r","s","t","u","v","w","x","y","z"}
UpperCase == {"A","B","C","D","E","F","G","H","I","J","K","L","M",
              "N","O","P","Q","R","S","T","U","V","W","X","Y","Z"}
Digits == {"0","1","2","3","4","5","6","7","8","9"}

ToLowerChar(ch) ==
    CASE ch = "A" -> "a" [] ch = "B" -> "b" [] ch = "C" -> "c" [] ch = "D" -> "d"
      [] ch = "E" -> "e" [] ch = "F" -> "f" [] ch = "G" -> "g" [] ch = "H" -> "h"
      [] ch = "I" -> "i" [] ch = "J" -> "j" [] ch = "K" -> "k" [] ch = "L" -> "l"
      [] ch = "M" -> "m" [] ch = "N" -> "n" [] ch = "O" -> "o" [] ch = "P" -> "p"
      [] ch = "Q" -> "q" [] ch = "R" -> "r" [] ch = "S" -> "s" [] ch = "T" -> "t"
      [] ch = "U" -> "u" [] ch = "V" -> "v" [] ch = "W" -> "w" [] ch = "X" -> "x"
      [] ch = "Y" -> "y" [] ch = "Z" -> "z" [] OTHER -> ch

ToLowerCase(str) == [i \in 1..Len(str) |-> ToLowerChar(str[i])]

\* \w of a JavaScript regular expression
IsWordChar(ch) == ch \in LowerCase \cup UpperCase \cup Digits \cup {"_"}

\* \s of a JavaScript regular expression (the ASCII part)
IsSpaceChar(ch) == ch \in {" ", "\t", "\n", "\r", "\f"}

\* . of a JavaScript regular expression: anything but a line terminator
IsDotChar(ch) == ch \notin {"\n", "\r"}

Slice(str, from, to) == [i \in 1..(to - from + 1) |-> str[from + i - 1]]

Includes(str, sub) ==
    \E i \in 1..(Len(str) - Len(sub) + 1) : Slice(str, i, i + Len(sub) - 1) = sub

\* whether ch belongs to a character class of a regular expression
InClass(ch, class) ==
    CASE class = "word" -> IsWordChar(ch)
      [] class = "space" -> IsSpaceChar(ch)
      [] class = "nonspace" -> ~IsSpaceChar(ch)
      [] class = "dot" -> IsDotChar(ch)
      [] OTHER -> ch = class

\* length of the longest run of characters of a class that starts at `from`
RunLen(str, from, class) ==
    LET ok(n) == \A m \in 0..(n - 1) : InClass(str[from + m], class)
        cand == {n \in 0..(Len(str) - from + 1) : ok(n)}
    IN  CHOOSE n \in cand : \A k \in cand : k <= n

DigitChar(n) ==
    CASE n = 0 -> "0" [] n = 1 -> "1" [] n = 2 -> "2" [] n = 3 -> "3" [] n = 4 -> "4"
      [] n = 5 -> "5" [] n = 6 -> "6" [] n = 7 -> "7" [] n = 8 -> "8" [] OTHER -> "9"

----------------------------------------------------------------------------
(* Machine state *)

St == [maxTerminals |-> maxTerminals, terminals |-> terminals, terminalTimeouts |-> terminalTimeouts,
       agentHandoffs |-> agentHandoffs, timers |-> timers, procs |-> procs,
       nextId |-> nextId, orchestratorTerminal |-> orchestratorTerminal,
       inputBuffer |-> inputBuffer, typedLine |-> typedLine,
       destroyed |-> destroyed, router |-> router, readyState |-> readyState,
       rejected |-> rejected, outputBufferLimit |-> outputBufferLimit,
       sentSince |-> sentSince, log |-> <<>>]

Commit(s) ==
    /\ maxTerminals' = s.maxTerminals
    /\ terminals' = s.terminals
    /\ terminalTimeouts' = s.terminalTimeouts
    /\ agentHandoffs' = s.agentHandoffs
    /\ timers' = s.timers
    /\ procs' = s.procs
    /\ nextId' = s.nextId
    /\ orchestratorTerminal' = s.orchestratorTerminal
    /\ inputBuffer' = s.inputBuffer
    /\ typedLine' = s.typedLine
    /\ outputBufferLimit' = s.outputBufferLimit
    /\ destroyed' = s.destroyed
    /\ router' = s.router
    /\ readyState' = s.readyState
    /\ rejected' = s.rejected
    /\ sentSince' = s.sentSince
    /\ log' = s.log

\* Map operations on the insertion-ordered terminals map
TermIds(terms) == {terms[i].terminalId : i \in 1..Len(terms)}
TermHas(terms, tid) == tid \in TermIds(terms)
TermGet(terms, tid) == terms[CHOOSE i \in 1..Len(terms) : terms[i].terminalId = tid]
TermDelete(terms, tid) == SelectSeq(terms, LAMBDA t : t.terminalId # tid)

\* Map operations on maps keyed by terminal id
MapDelete(map, key) == [k \in DOMAIN map \ {key} |-> map[k]]
MapSet(map, key, val) == [k \in DOMAIN map \cup {key} |-> IF k = key THEN val ELSE map[k]]

----------------------------------------------------------------------------
(* WebSocketUtils: messages to clients.  A log entry is a message sent to  *)
(* a client (kind "send"), a write to a process (kind "write") or a kill   *)
(* of a process (kind "kill"); the router adds the functions it invoked     *)
(* (kinds "middleware", "handler", "callback") and a value it returned      *)
(* (kind "return").                                                        *)

\* WebSocket.OPEN and WebSocket.CLOSED
OPEN == 1
CLOSED == 3

\* a null or undefined connection
NoSocket == "null"

\* !(!ws || ws.readyState !== 1)
IsOpen(s, ws) == ws # NoSocket /\ s.readyState[ws] = OPEN

\* ws.send(JSON.stringify(...)) on an open connection
WsSend(s, ws, type, success, tid, error, data) ==
    [s EXCEPT !.log = Append(@, [kind |-> "send", to |-> ws, type |-> type,
                                 success |-> success, terminalId |-> tid,
                                 error |-> error, data |-> data])]

sendRawMessage(s, ws, type, success, tid, error, data) ==
    IF ~IsOpen(s, ws) THEN s
    ELSE WsSend(s, ws, type, success, tid, error, data)

sendTerminalCreated(s, ws, success, tid, error) ==
    sendRawMessage(s, ws, "terminal-created", success, tid, error, <<>>)

sendTerminalOutput(s, ws, tid, data) ==
    sendRawMessage(s, ws, "terminal-output", TRUE, tid, "", data)

sendTerminalExit(s, ws, tid) ==
    sendRawMessage(s, ws, "terminal-exit", TRUE, tid, "", <<>>)

sendTerminalDestroyed(s, ws, tid, success, error) ==
    sendRawMessage(s, ws, "terminal-destroyed", success, tid,
                   IF ~success /\ error # "" THEN error ELSE "", <<>>)

sendCommandExecuted(s, ws, tid, success, error) ==
    sendRawMessage(s, ws, "command-executed", success, tid,
                   IF ~success /\ error # "" THEN error ELSE "", <<>>)

\* sendMessage(ws, type, data): the state after it and the boolean it returns
sendMessage(s, ws, type, data) ==
    IF ~IsOpen(s, ws) THEN [s |-> s, value |-> FALSE]
    ELSE [s |-> WsSend(s, ws, type, TRUE, NoTerminal, "", data), value |-> TRUE]

\* sendError(ws, error): the message {type: "error", error}; data holds the
\* message type the error text names, if any
sendError(s, ws, error, data) ==
    sendRawMessage(s, ws, "error", FALSE, NoTerminal, error, data)

RECURSIVE broadcastMessage_countAll(_, _, _, _, _)
RECURSIVE broadcastMessage(_, _, _, _, _)

\* a broadcast that counts every connection it was given
broadcastMessage_countAll(s, connections, type, data, successCount) ==
    IF connections = <<>> THEN [s |-> s, value |-> successCount]
    ELSE LET r == sendMessage(s, Head(connections), type, data)
             rest == broadcastMessage_countAll(r.s, Tail(connections), type, data, successCount)
         IN  [s |-> rest.s, value |-> rest.value + 1]

\* broadcastMessage(connections, type, data): connections.forEach from the
\* running successCount on; the state after it and the count it returns
broadcastMessage(s, connections, type, data, successCount) ==
    IF connections = <<>> THEN [s |-> s, value |-> successCount]
    ELSE LET r == sendMessage(s, Head(connections), type, data)
         IN  broadcastMessage(r.s, Tail(connections), type, data,
                              IF r.value THEN successCount + 1 ELSE successCount)

Sends(lg) == SelectSeq(lg, LAMBDA e : e.kind = "send")
Writes(lg) == SelectSeq(lg, LAMBDA e : e.kind = "write")
Kills(lg) == SelectSeq(lg, LAMBDA e : e.kind = "kill")

----------------------------------------------------------------------------
(* Process adapter (node-pty): write and kill never raise; a killed or     *)
(* dead process just ignores them.                                         *)

PtyWrite(s, tid, data) ==
    [s EXCEPT !.log = Append(@, [kind |-> "write", to |-> "-", type |-> "write",
                                 success |-> TRUE, terminalId |-> tid,
                                 error |-> "", data |-> data])]

PtyKill(s, tid) ==
    [s EXCEPT !.log = Append(@, [kind |-> "kill", to |-> "-", type |-> "kill",
                                 success |-> TRUE, terminalId |-> tid,
                                 error |-> "", data |-> <<>>])]

----------------------------------------------------------------------------
(* Event-loop timers *)

\* clearTimeout(h): h is a handle or 0 (undefined)
ClearTimeout(s, h) == [s EXCEPT !.timers = {t \in @ : t.h # h}]

\* a timer object distinct from every live one
FreshHandle(s) ==
    LET used == {t.h : t \in s.timers}
                \cup {s.terminalTimeouts[k] : k \in DOMAIN s.terminalTimeouts}
    IN  CHOOSE h \in 1..(Cardinality(used) + 1) :
            h \notin used /\ \A g \in 1..(h - 1) : g \in used

SetTimeout(s, h, tid) ==
    [s EXCEPT !.timers = @ \cup {[h |-> h, tid |-> tid, age |-> 0]}]

----------------------------------------------------------------------------
(* TerminalManager *)

\* the capacity check off by one
AtCapacity_offByOne(s) == Len(s.terminals) > s.maxTerminals

AtCapacity(s) == Len(s.terminals) >= s.maxTerminals

MapGet(map, key) == IF key \in DOMAIN map THEN map[key] ELSE 0

\* a reset that arms a new timer without cancelling the pending one
ResetTerminalTimeout_noClear(s, tid) ==
    LET timeout == FreshHandle(s)
        s2 == SetTimeout(s, timeout, tid)
    IN  [s2 EXCEPT !.terminalTimeouts = MapSet(@, tid, timeout)]

ResetTerminalTimeout(s, tid) ==
    LET existingTimeout == MapGet(s.terminalTimeouts, tid)
        s1 == IF existingTimeout # 0 THEN ClearTimeout(s, existingTimeout) ELSE s
        timeout == FreshHandle(s1)
        s2 == SetTimeout(s1, timeout, tid)
    IN  [s2 EXCEPT !.terminalTimeouts = MapSet(@, tid, timeout)]

\* an expiry that kills the process and leaves the bookkeeping to the exit event
TimeoutCallback_killOnly(s, tid) ==
    IF TermHas(s.terminals, tid) THEN PtyKill(s, tid) ELSE s

\* the callback _resetTerminalTimeout hands to setTimeout
TimeoutCallback(s, tid) ==
    IF TermHas(s.terminals, tid)
    THEN LET s1 == PtyKill(s, tid)
         IN  [s1 EXCEPT !.terminals = TermDelete(@, tid),
                        !.terminalTimeouts = MapDelete(@, tid),
                        !.agentHandoffs = MapDelete(@, tid)]
    ELSE s

IsClaudeAgent(message) == message.agentType = "claude" \/ message.mcpServers

Str_agent == <<"a","g","e","n","t","-">>
Str_claude == <<"c","l","a","u","d","e","-">>
Str_bash == <<"b","a","s","h">>

DefaultAgentName(isClaude, instanceNumber) ==
    (IF isClaude THEN Str_claude ELSE <<>>) \o Str_agent \o <<DigitChar(instanceNumber)>>

\* "" when _createTerminalProcess runs through, else the message of the error it throws
CreateProcessError(message, spawnOk) ==
    IF IsClaudeAgent(message)
    THEN IF spawnOk THEN "" ELSE "spawn failed"
    ELSE "agentWorkspace is not defined"

Banner(tag) == <<tag, "\r", "\n">>

SetupBanner(s, tid) ==
    LET s1 == PtyWrite(s, tid, Banner("# Agent Workspace"))
        s2 == PtyWrite(s1, tid, Banner("# You are restricted to"))
        s3 == PtyWrite(s2, tid, Banner("# Claude will not be able to access"))
        s4 == PtyWrite(s3, tid, Banner("# Type 'claude' to start"))
    IN  PtyWrite(s4, tid, Banner("# Terminal ready") \o <<"\r", "\n">>)

CreateTerminalProcess(s, ws, terminalId, instanceNumber, message) ==
    LET isClaude == IsClaudeAgent(message)
        terminalInfo ==
            [terminalId |-> terminalId, instanceNumber |-> instanceNumber,
             clientWs |-> ws,
             agentName |-> IF message.agentName # <<>> THEN message.agentName
                           ELSE DefaultAgentName(isClaude, instanceNumber),
             outputBuffer |-> <<>>,
             isClaudeAgent |-> isClaude]
        s1 == [s EXCEPT !.terminals = Append(@, terminalInfo),
                        !.procs[terminalId] =
                            [state |-> "running", clientWs |-> ws],
                        !.nextId = @ + 1]
        s2 == ResetTerminalTimeout(s1, terminalId)
        s3 == IF ~isClaude THEN SetupBanner(s2, terminalId) ELSE s2
    IN  sendTerminalCreated(s3, ws, TRUE, terminalId, "")

\* a create that leaves the capacity check to its callers
createTerminal_unchecked(s, ws, message, spawnOk) ==
    IF message.connectionType # "" /\ message.connectionType # "local"
    THEN sendTerminalCreated(s, ws, FALSE, NoTerminal, "Connection type not implemented")
    ELSE LET error == CreateProcessError(message, spawnOk)
         IN  IF error = ""
             THEN CreateTerminalProcess(s, ws, s.nextId, Len(s.terminals) + 1, message)
             ELSE sendTerminalCreated(s, ws, FALSE, NoTerminal, error)

\* a create that puts the session into the registry before it starts the process
createTerminal_registerFirst(s, ws, message, spawnOk) ==
    IF AtCapacity(s)
    THEN sendTerminalCreated(s, ws, FALSE, NoTerminal, "Maximum number of terminals reached")
    ELSE IF message.connectionType # "" /\ message.connectionType # "local"
    THEN sendTerminalCreated(s, ws, FALSE, NoTerminal, "Connection type not implemented")
    ELSE LET error == CreateProcessError(message, spawnOk)
             s1 == CreateTerminalProcess(s, ws, s.nextId, Len(s.terminals) + 1, message)
         IN  IF error = "" THEN s1
             ELSE sendTerminalCreated([s1 EXCEPT !.log = s.log], ws, FALSE, NoTerminal, error)

createTerminal(s, ws, message, spawnOk) ==
    IF AtCapacity(s)
    THEN sendTerminalCreated(s, ws, FALSE, NoTerminal, "Maximum number of terminals reached")
    ELSE IF message.connectionType # "" /\ message.connectionType # "local"
    THEN sendTerminalCreated(s, ws, FALSE, NoTerminal, "Connection type not implemented")
    ELSE LET terminalId == s.nextId
             instanceNumber == Len(s.terminals) + 1
             error == CreateProcessError(message, spawnOk)
         IN  IF error = ""
             THEN CreateTerminalProcess(s, ws, terminalId, instanceNumber, message)
             ELSE sendTerminalCreated(s, ws, FALSE, NoTerminal, error)

handleTerminalCommand(s, ws, terminalId, command) ==
    IF ~TermHas(s.terminals, terminalId)
    THEN sendCommandExecuted(s, ws, terminalId, FALSE, "Terminal not found")
    ELSE LET s1 == PtyWrite(s, terminalId, command \o <<"\\", "r">>)
             s2 == sendCommandExecuted(s1, ws, terminalId, TRUE, "")
         IN  ResetTerminalTimeout(s2, terminalId)

handleTerminalInput(s, ws, terminalId, data) ==
    IF ~TermHas(s.terminals, terminalId)
    THEN s
    ELSE ResetTerminalTimeout(PtyWrite(s, terminalId, data), terminalId)

\* a destroy that kills the process and leaves the registry entry to the exit event
handleDestroyTerminal_keepEntry(s, ws, terminalId) ==
    IF ~TermHas(s.terminals, terminalId)
    THEN sendTerminalDestroyed(s, ws, terminalId, FALSE, "Terminal not found")
    ELSE LET s1 == PtyKill(s, terminalId)
             s3 == ClearTimeout(s1, MapGet(s1.terminalTimeouts, terminalId))
             s4 == [s3 EXCEPT !.terminalTimeouts = MapDelete(@, terminalId),
                              !.agentHandoffs = MapDelete(@, terminalId)]
         IN  sendTerminalDestroyed(s4, ws, terminalId, TRUE, "Terminal destroyed successfully")

\* a destroy that forgets the timer without cancelling it
handleDestroyTerminal_noCancel(s, ws, terminalId) ==
    IF ~TermHas(s.terminals, terminalId)
    THEN sendTerminalDestroyed(s, ws, terminalId, FALSE, "Terminal not found")
    ELSE LET s1 == PtyKill(s, terminalId)
             s2 == [s1 EXCEPT !.terminals = TermDelete(@, terminalId)]
             s4 == [s2 EXCEPT !.terminalTimeouts = MapDelete(@, terminalId),
                              !.agentHandoffs = MapDelete(@, terminalId)]
         IN  sendTerminalDestroyed(s4, ws, terminalId, TRUE, "Terminal destroyed successfully")

handleDestroyTerminal(s, ws, terminalId) ==
    IF ~TermHas(s.terminals, terminalId)
    THEN sendTerminalDestroyed(s, ws, terminalId, FALSE, "Terminal not found")
    ELSE LET s1 == PtyKill(s, terminalId)
             s2 == [s1 EXCEPT !.terminals = TermDelete(@, terminalId)]
             s3 == ClearTimeout(s2, MapGet(s2.terminalTimeouts, terminalId))
             s4 == [s3 EXCEPT !.terminalTimeouts = MapDelete(@, terminalId),
                              !.agentHandoffs = MapDelete(@, terminalId)]
         IN  sendTerminalDestroyed(s4, ws, terminalId, TRUE, "Terminal destroyed successfully")

Str_NoContext == <<"No context provided">>

\* a handoff that sets up the tracking record before it looks the terminal up
handoffToAgent_noCheck(s, terminalId, newAgentName, context) ==
    LET known == TermHas(s.terminals, terminalId)
        handoffInfo ==
            IF terminalId \in DOMAIN s.agentHandoffs
            THEN s.agentHandoffs[terminalId]
            ELSE [currentAgent |-> IF known THEN TermGet(s.terminals, terminalId).agentName
                                   ELSE Str_bash,
                  history |-> <<>>]
        entry == [fromAgent |-> handoffInfo.currentAgent, toAgent |-> newAgentName,
                  message |-> context.message, reason |-> context.reason]
        s1 == [s EXCEPT
                 !.agentHandoffs = MapSet(@, terminalId,
                     [currentAgent |-> newAgentName,
                      history |-> Append(handoffInfo.history, entry)]),
                 !.terminals = [i \in 1..Len(@) |->
                     IF @[i].terminalId = terminalId
                     THEN [@[i] EXCEPT !.agentName = newAgentName] ELSE @[i]]]
    IN  IF known THEN PtyWrite(s1, terminalId, <<"\r", "\n">>) ELSE s1

\* a handoff that starts the history afresh with the new transition
handoffToAgent_overwrite(s, terminalId, newAgentName, context) ==
    IF ~TermHas(s.terminals, terminalId) THEN s
    ELSE LET handoffInfo ==
                 IF terminalId \in DOMAIN s.agentHandoffs
                 THEN s.agentHandoffs[terminalId]
                 ELSE [currentAgent |-> TermGet(s.terminals, terminalId).agentName,
                       history |-> <<>>]
             entry == [fromAgent |-> handoffInfo.currentAgent, toAgent |-> newAgentName,
                       message |-> context.message,
                       reason |-> IF context.reason # "" THEN context.reason
                                  ELSE "Manual handoff"]
             s1 == [s EXCEPT
                      !.agentHandoffs = MapSet(@, terminalId,
                          [currentAgent |-> newAgentName, history |-> <<entry>>]),
                      !.terminals = [i \in 1..Len(@) |->
                          IF @[i].terminalId = terminalId
                          THEN [@[i] EXCEPT !.agentName = newAgentName] ELSE @[i]]]
         IN  PtyWrite(s1, terminalId, <<"\r", "\n">>)

\* a handoff that records the transition and renames the session but leaves
\* the record's current agent as it was
handoffToAgent_keepCurrent(s, terminalId, newAgentName, context) ==
    IF ~TermHas(s.terminals, terminalId) THEN s
    ELSE LET handoffInfo ==
                 IF terminalId \in DOMAIN s.agentHandoffs
                 THEN s.agentHandoffs[terminalId]
                 ELSE [currentAgent |-> TermGet(s.terminals, terminalId).agentName,
                       history |-> <<>>]
             entry == [fromAgent |-> handoffInfo.currentAgent, toAgent |-> newAgentName,
                       message |-> context.message, reason |-> context.reason]
             s1 == [s EXCEPT
                      !.agentHandoffs = MapSet(@, terminalId,
                          [handoffInfo EXCEPT !.history = Append(@, entry)]),
                      !.terminals = [i \in 1..Len(@) |->
                          IF @[i].terminalId = terminalId
                          THEN [@[i] EXCEPT !.agentName = newAgentName] ELSE @[i]]]
         IN  PtyWrite(s1, terminalId, <<"\r", "\n">>)

\* handoffToAgent; a rejected call (terminal not found) leaves the state as it is
handoffToAgent(s, terminalId, newAgentName, context) ==
    IF ~TermHas(s.terminals, terminalId) THEN s ELSE
    LET terminalInfo == TermGet(s.terminals, terminalId)
        handoffInfo ==
            IF terminalId \in DOMAIN s.agentHandoffs
            THEN s.agentHandoffs[terminalId]
            ELSE [currentAgent |-> IF terminalInfo.agentName # <<>>
                                   THEN terminalInfo.agentName ELSE Str_bash,
                  history |-> <<>>]
        previousAgent == handoffInfo.currentAgent
        entry == [fromAgent |-> previousAgent, toAgent |-> newAgentName,
                  message |-> context.message,
                  reason |-> IF context.reason # "" THEN context.reason
                             ELSE "Manual handoff"]
        s1 == [s EXCEPT
                 !.agentHandoffs = MapSet(@, terminalId,
                     [currentAgent |-> newAgentName,
                      history |-> Append(handoffInfo.history, entry)]),
                 !.terminals = [i \in 1..Len(@) |->
                     IF @[i].terminalId = terminalId
                     THEN [@[i] EXCEPT !.agentName = newAgentName] ELSE @[i]]]
        s2 == PtyWrite(s1, terminalId,
                 <<"\r", "\n", "Agent handoff: ">> \o previousAgent \o <<" -> ">>
                   \o newAgentName \o <<"\r", "\n">>)
        s3 == IF context.message # <<>>
              THEN PtyWrite(s2, terminalId,
                      <<"Context: ">> \o context.message \o <<"\r", "\n">>)
              ELSE s2
    IN  PtyWrite(s3, terminalId, <<"\r", "\n">>)

getHandoffHistory(s, terminalId) ==
    IF terminalId \in DOMAIN s.agentHandoffs
    THEN s.agentHandoffs[terminalId]
    ELSE [currentAgent |-> <<>>, history |-> <<>>]

Str_handoffTo == <<"h","a","n","d","o","f","f","-","t","o",":">>

\* data.toString().match(/handoff-to:(\w+)(?:\s+(.+))?/i)
HandoffPatternAt(data, i) ==
    /\ i + Len(Str_handoffTo) <= Len(data)
    /\ ToLowerCase(Slice(data, i, i + Len(Str_handoffTo) - 1)) = Str_handoffTo
    /\ IsWordChar(data[i + Len(Str_handoffTo)])

HandoffPatternMatch(data) ==
    LET starts == {i \in 1..Len(data) : HandoffPatternAt(data, i)}
    IN  IF starts = {}
        THEN [matched |-> FALSE, name |-> <<>>, message |-> <<>>]
        ELSE LET i == CHOOSE x \in starts : \A y \in starts : x <= y
                 j == i + Len(Str_handoffTo)
                 k == j + RunLen(data, j, "word")
                 p == RunLen(data, k, "space")
                 qs == {q \in 1..p : k + q <= Len(data) /\ IsDotChar(data[k + q])}
             IN  IF qs = {}
                 THEN [matched |-> TRUE, name |-> Slice(data, j, k - 1), message |-> <<>>]
                 ELSE LET q == CHOOSE x \in qs : \A y \in qs : y <= x
                          r == RunLen(data, k + q, "dot")
                      IN  [matched |-> TRUE, name |-> Slice(data, j, k - 1),
                           message |-> Slice(data, k + q, k + q + r - 1)]

\* a monitor that hands the captured text on as it is, absent or not
monitorAgentOutput_rawMessage(s, terminalId, data) ==
    LET match == HandoffPatternMatch(data)
    IN  IF match.matched
        THEN handoffToAgent(s, terminalId, match.name,
                 [reason |-> "Agent requested handoff", message |-> match.message])
        ELSE s

\* the rejection of handoffToAgent for an unknown terminal is caught and logged
monitorAgentOutput(s, terminalId, data) ==
    LET match == HandoffPatternMatch(data)
    IN  IF match.matched
        THEN handoffToAgent(s, terminalId, match.name,
                 [reason |-> "Agent requested handoff",
                  message |-> IF match.message # <<>> THEN match.message
                              ELSE Str_NoContext])
        ELSE s

\* a data handler that keeps handoff requests to itself
OnData_skipRequests(s, terminalId, data) ==
    LET s1 == monitorAgentOutput(s, terminalId, data)
    IN  IF HandoffPatternMatch(data).matched THEN s1
        ELSE sendTerminalOutput(s1, s.procs[terminalId].clientWs, terminalId, data)

\* a data handler that, with the history full, leaves the arriving chunk out
OnData_dropNewest(s, terminalId, data) ==
    LET s1 == monitorAgentOutput(s, terminalId, data)
        s2 == sendTerminalOutput(s1, s.procs[terminalId].clientWs, terminalId, data)
    IN  [s2 EXCEPT !.terminals = [i \in 1..Len(@) |->
            IF @[i].terminalId = terminalId /\ Len(@[i].outputBuffer) < s.outputBufferLimit
            THEN [@[i] EXCEPT !.outputBuffer = Append(@, data)]
            ELSE @[i]]]

\* ptyProcess.on("data", ...) of the terminal created as terminalId; the
\* history is that of the terminalInfo the handler closes over, followed
\* here for as long as the registry holds it
OnData(s, terminalId, data) ==
    LET s1 == monitorAgentOutput(s, terminalId, data)
        s2 == sendTerminalOutput(s1, s.procs[terminalId].clientWs, terminalId, data)
        pushed(outputBuffer) == Append(outputBuffer, data)
    IN  [s2 EXCEPT !.terminals = [i \in 1..Len(@) |->
            IF @[i].terminalId = terminalId
            THEN [@[i] EXCEPT !.outputBuffer =
                    IF Len(pushed(@)) > s.outputBufferLimit
                    THEN Tail(pushed(@)) ELSE pushed(@)]
            ELSE @[i]]]

\* an exit handler that leaves the handoff record behind
OnExit_keepRecord(s, terminalId) ==
    LET s1 == sendTerminalExit(s, s.procs[terminalId].clientWs, terminalId)
        s2 == [s1 EXCEPT !.terminals = TermDelete(@, terminalId)]
        s3 == ClearTimeout(s2, MapGet(s2.terminalTimeouts, terminalId))
    IN  [s3 EXCEPT !.terminalTimeouts = MapDelete(@, terminalId)]

\* ptyProcess.onExit(...) of the terminal created as terminalId
OnExit(s, terminalId) ==
    LET s1 == sendTerminalExit(s, s.procs[terminalId].clientWs, terminalId)
        s2 == [s1 EXCEPT !.terminals = TermDelete(@, terminalId)]
        s3 == ClearTimeout(s2, MapGet(s2.terminalTimeouts, terminalId))
    IN  [s3 EXCEPT !.terminalTimeouts = MapDelete(@, terminalId),
                   !.agentHandoffs = MapDelete(@, terminalId)]

----------------------------------------------------------------------------
(* More text: String.prototype.trim, split and join as OrchestratorCommands *)
(* uses them                                                                *)

Trim(str) ==
    LET n == Len(str)
        lead == RunLen(str, 1, "space")
        keep == {i \in 1..n : ~IsSpaceChar(str[i])}
    IN  IF keep = {} THEN <<>>
        ELSE Slice(str, lead + 1, CHOOSE i \in keep : \A j \in keep : j <= i)

\* first position at or after `from` where the regular expression /\\s+/
\* matches: a backslash followed by at least one letter s; 0 when there is none
BackslashSAt(str, from) ==
    LET hits == {i \in from..(Len(str) - 1) : str[i] = "\\" /\ str[i + 1] = "s"}
    IN  IF hits = {} THEN 0 ELSE CHOOSE i \in hits : \A j \in hits : i <= j

\* str.split(/\\s+/)
RECURSIVE SplitArgs(_)
SplitArgs(str) ==
    LET i == BackslashSAt(str, 1)
    IN  IF i = 0 THEN <<str>>
        ELSE LET n == 1 + RunLen(str, i + 1, "s")
             IN  <<Slice(str, 1, i - 1)>> \o SplitArgs(Slice(str, i + n, Len(str)))

\* str.split(' ')[0]
FirstWord(str) ==
    LET sp == {i \in 1..Len(str) : str[i] = " "}
    IN  IF sp = {} THEN str
        ELSE Slice(str, 1, (CHOOSE i \in sp : \A j \in sp : i <= j) - 1)

\* args.slice(from).join(" "), from counted from 1
RECURSIVE JoinFrom(_, _)
JoinFrom(args, from) ==
    IF from > Len(args) THEN <<>>
    ELSE IF from = Len(args) THEN args[from]
    ELSE args[from] \o <<" ">> \o JoinFrom(args, from + 1)

Tail1(args) == IF Len(args) = 0 THEN <<>> ELSE Tail(args)

Str_terminal == <<"t","e","r","m","i","n","a","l","-">>

\* the id string `terminal-${uuidv4()}`: the uuid is opaque text no request names
IdString(tid) == Str_terminal \o <<"<uuid>", DigitChar(tid)>>

----------------------------------------------------------------------------
(* OrchestratorCommands *)

Cmd_spawn == <<"s","p","a","w","n">>
Cmd_spawn_claude == <<"s","p","a","w","n","-","c","l","a","u","d","e">>
Cmd_spawn_hidden == <<"s","p","a","w","n","-","h","i","d","d","e","n">>
Cmd_status == <<"s","t","a","t","u","s">>
Cmd_send == <<"s","e","n","d">>
Cmd_agent_comm == <<"a","g","e","n","t","-","c","o","m","m">>
Cmd_broadcast == <<"b","r","o","a","d","c","a","s","t">>
Cmd_logs == <<"l","o","g","s">>
Cmd_handoff == <<"h","a","n","d","o","f","f">>
Cmd_queue == <<"q","u","e","u","e">>
Cmd_ohelp == <<"o","h","e","l","p">>
Cmd_help == <<"h","e","l","p">>
Cmd_claude == <<"c","l","a","u","d","e">>
Cmd_gordon == <<"g","o","r","d","o","n">>
Cmd_gordon_consult == <<"g","o","r","d","o","n","-","c","o","n","s","u","l","t">>
Cmd_destroy == <<"d","e","s","t","r","o","y">>

sendOrchestratorResponse(s, ws, text, success) ==
    sendRawMessage(s, ws, "orchestrator-response", success, NoTerminal, "", <<text>>)

sendAgentUpdate(s, ws, agentName) ==
    sendRawMessage(s, ws, "agent-update", TRUE, NoTerminal, "", agentName)

sendAgentOutput(s, ws, tid, text) ==
    sendRawMessage(s, ws, "agent-output", TRUE, tid, "", <<text>>)

sendQueueUpdate(s, ws) ==
    sendRawMessage(s, ws, "queue-update", TRUE, NoTerminal, "", <<>>)

\* the id `orchestrator-${uuidv4()}` of an init request: no key of the terminals map
OrchestratorRequestId == 0 - 1

handleOrchestratorInit(s, ws, spawnOk) ==
    LET terminalId == OrchestratorRequestId
        s1 == createTerminal(s, ws,
                 [agentType |-> "bash", mcpServers |-> FALSE, agentName |-> <<>>,
                  connectionType |-> ""], spawnOk)
        s2 == IF ~TermHas(s1.terminals, terminalId)
              THEN IF Len(s1.terminals) > 0
                   THEN [s1 EXCEPT !.orchestratorTerminal =
                                      s1.terminals[Len(s1.terminals)].terminalId]
                   ELSE s1
              ELSE [s1 EXCEPT !.orchestratorTerminal = terminalId]
        actualTerminalId == IF s2.orchestratorTerminal # NoTerminal
                            THEN s2.orchestratorTerminal ELSE terminalId
        s3 == sendAgentOutput(s2, ws, actualTerminalId, "greeting")
    IN  sendOrchestratorResponse(s3, ws, "Orchestrator initialized successfully", TRUE)

\* the lookup loop of send, logs and handoff: first terminal in map order whose
\* agent name is agentId or whose id string contains it; NoTerminal when none
FindTerminal(s, agentId) ==
    LET hits == {i \in 1..Len(s.terminals) :
                    \/ s.terminals[i].agentName = agentId
                    \/ Includes(IdString(s.terminals[i].terminalId), agentId)}
    IN  IF hits = {} THEN NoTerminal
        ELSE s.terminals[CHOOSE i \in hits : \A j \in hits : i <= j].terminalId

spawnAgent(s, ws, agentName, spawnOk) ==
    IF Len(s.terminals) >= s.maxTerminals
    THEN sendOrchestratorResponse(s, ws, "Cannot spawn agent: Maximum terminals reached.", FALSE)
    ELSE LET s1 == createTerminal(s, ws,
                      [agentType |-> "", mcpServers |-> FALSE, agentName |-> agentName,
                       connectionType |-> "local"], spawnOk)
             s2 == sendAgentUpdate(s1, ws, agentName)
         IN  sendOrchestratorResponse(s2, ws, "Spawning agent", TRUE)

spawnClaudeAgent(s, ws, agentName, spawnOk) ==
    IF Len(s.terminals) >= s.maxTerminals
    THEN sendOrchestratorResponse(s, ws, "Cannot spawn Claude agent: Maximum terminals reached.", FALSE)
    ELSE LET s1 == createTerminal(s, ws,
                      [agentType |-> "claude", mcpServers |-> TRUE, agentName |-> agentName,
                       connectionType |-> "local"], spawnOk)
             s2 == sendAgentUpdate(s1, ws, agentName)
         IN  sendOrchestratorResponse(s2, ws, "Spawning Claude agent", TRUE)

handleSpawn(s, ws, args, spawnOk) ==
    IF Len(args) = 0
    THEN sendOrchestratorResponse(s, ws, "Usage: spawn", FALSE)
    ELSE spawnAgent(s, ws, args[1], spawnOk)

handleSpawnClaude(s, ws, args, spawnOk) ==
    IF Len(args) = 0
    THEN sendOrchestratorResponse(s, ws, "Usage: spawn-claude", FALSE)
    ELSE spawnClaudeAgent(s, ws, args[1], spawnOk)

handleSpawnHidden(s, ws, args, spawnOk) ==
    IF Len(args) = 0
    THEN sendOrchestratorResponse(s, ws, "Usage: spawn-hidden", FALSE)
    ELSE spawnAgent(s, ws, args[1], spawnOk)

\* terminalList of _handleStatus: what the status report shows per session
StatusList(s) ==
    [i \in 1..Len(s.terminals) |->
        LET info == s.terminals[i]
            handoffInfo == getHandoffHistory(s, info.terminalId)
        IN  [id |-> info.terminalId,
             name |-> IF info.agentName # <<>> THEN info.agentName ELSE Str_bash,
             currentAgent |-> handoffInfo.currentAgent,
             handoffs |-> Len(handoffInfo.history)]]

handleStatus(s, ws) == sendOrchestratorResponse(s, ws, "Agent Status", TRUE)

handleSendToAgent(s, ws, args) ==
    IF Len(args) < 2
    THEN sendOrchestratorResponse(s, ws, "Usage: send", FALSE)
    ELSE LET target == FindTerminal(s, args[1])
             command == JoinFrom(args, 2)
         IN  IF target = NoTerminal
             THEN sendOrchestratorResponse(s, ws, "Agent not found", FALSE)
             ELSE sendOrchestratorResponse(
                      PtyWrite(s, target, command \o <<"\r">>), ws, "Sent", TRUE)

RECURSIVE BroadcastFrom(_, _, _)
BroadcastFrom(s, i, command) ==
    IF i > Len(s.terminals) THEN s
    ELSE BroadcastFrom(PtyWrite(s, s.terminals[i].terminalId, command \o <<"\r">>),
                       i + 1, command)

handleBroadcast(s, ws, args) ==
    IF Len(args) = 0
    THEN sendOrchestratorResponse(s, ws, "Usage: broadcast", FALSE)
    ELSE IF Len(s.terminals) = 0
    THEN sendOrchestratorResponse(s, ws, "No active agents to broadcast to.", FALSE)
    ELSE LET successCount == Len(s.terminals)   \* one per write, and no write raises
         IN  sendRawMessage(BroadcastFrom(s, 1, JoinFrom(args, 1)), ws,
                            "orchestrator-response", TRUE, NoTerminal, "",
                            <<"Broadcast", DigitChar(successCount),
                              DigitChar(Len(s.terminals))>>)

handleLogs(s, ws, args) ==
    IF Len(args) = 0
    THEN sendOrchestratorResponse(s, ws, "Usage: logs", FALSE)
    ELSE IF FindTerminal(s, args[1]) = NoTerminal
    THEN sendOrchestratorResponse(s, ws, "Agent not found", FALSE)
    ELSE sendOrchestratorResponse(s, ws, "Recent logs", TRUE)

Str_ManualHandoff == <<"Manual handoff via orchestrator">>

handleAgentHandoff(s, ws, args) ==
    IF Len(args) < 2
    THEN sendOrchestratorResponse(s, ws, "Usage: handoff", FALSE)
    ELSE LET target == FindTerminal(s, args[1])
             joined == JoinFrom(args, 3)
             contextMessage == IF joined # <<>> THEN joined ELSE Str_ManualHandoff
         IN  IF target = NoTerminal
             THEN sendOrchestratorResponse(s, ws, "Agent not found", FALSE)
             ELSE sendOrchestratorResponse(
                      handoffToAgent(s, target, args[2],
                          [reason |-> "Orchestrator-initiated handoff",
                           message |-> contextMessage]),
                      ws, "Agent handoff completed", TRUE)

handleQueue(s, ws, args) ==
    IF Len(args) = 0 THEN sendQueueUpdate(s, ws)
    ELSE IF ToLowerCase(args[1]) = <<"c","l","e","a","r">>
    THEN sendOrchestratorResponse(s, ws, "Prompt queue cleared.", TRUE)
    ELSE sendQueueUpdate(s, ws)

handleGordonConsult(s, ws, args) ==
    IF Len(args) = 0
    THEN sendOrchestratorResponse(s, ws, "Usage: gordon", FALSE)
    ELSE sendOrchestratorResponse(s, ws, "Consulting Gordon", TRUE)

handleClaudeCommand(s, ws, args) ==
    IF Len(args) > 0
    THEN LET s1 == sendOrchestratorResponse(s, ws, "Running: claude", TRUE)
         IN  IF s.orchestratorTerminal # NoTerminal
             THEN PtyWrite(s1, s.orchestratorTerminal,
                           Cmd_claude \o <<" ">> \o JoinFrom(args, 1) \o <<"\r">>)
             ELSE s1
    ELSE LET s1 == sendOrchestratorResponse(s, ws, "Starting Claude Code CLI...", TRUE)
         IN  IF s.orchestratorTerminal # NoTerminal
             THEN PtyWrite(s1, s.orchestratorTerminal, Cmd_claude \o <<"\r">>)
             ELSE sendOrchestratorResponse(s1, ws, "Error: Orchestrator terminal not available", FALSE)

\* _handleAgentToAgentComm: sdkOk is whether the SDK call returns or throws
handleAgentToAgentComm(s, ws, args, sdkOk) ==
    IF Len(args) < 3
    THEN sendOrchestratorResponse(s, ws, "Usage: agent-comm", FALSE)
    ELSE LET s1 == sendOrchestratorResponse(s, ws, "Fast SDK communication", TRUE)
         IN  IF sdkOk
             THEN sendOrchestratorResponse(s1, ws, "Agent communication completed", TRUE)
             ELSE sendOrchestratorResponse(s1, ws, "Failed to communicate between agents", FALSE)

\* _handleChatBroadcast calls terminalManager.getAllTerminals, which TerminalManager
\* does not define: the TypeError reaches the catch of handleOrchestratorCommand
handleChatBroadcast(s, ws) ==
    sendOrchestratorResponse(s, ws, "Error: getAllTerminals is not a function", FALSE)

passCommandToTerminal(s, ws, command) ==
    sendOrchestratorResponse(s, ws, "Command not recognized", FALSE)

\* the switch of handleOrchestratorCommand, for a message that carries {command};
\* spawnOk is whether the external call the handler makes (pty.spawn, the SDK)
\* returns rather than throws
DispatchCommand(s, ws, command, spawnOk) ==
    IF command = <<>> THEN s
    ELSE LET args == SplitArgs(Trim(command))
             cmd == ToLowerCase(args[1])
             rest == Tail1(args)
         IN  CASE cmd = Cmd_spawn -> handleSpawn(s, ws, rest, spawnOk)
               [] cmd = Cmd_spawn_claude -> handleSpawnClaude(s, ws, rest, spawnOk)
               [] cmd = Cmd_spawn_hidden -> handleSpawnHidden(s, ws, rest, spawnOk)
               [] cmd = Cmd_status -> handleStatus(s, ws)
               [] cmd = Cmd_send -> handleSendToAgent(s, ws, rest)
               [] cmd = Cmd_agent_comm -> handleAgentToAgentComm(s, ws, rest, spawnOk)
               [] cmd = Cmd_broadcast -> handleBroadcast(s, ws, rest)
               [] cmd = Cmd_logs -> handleLogs(s, ws, rest)
               [] cmd = Cmd_handoff -> handleAgentHandoff(s, ws, rest)
               [] cmd = Cmd_queue -> handleQueue(s, ws, rest)
               [] cmd \in {Cmd_ohelp, Cmd_help} ->
                      sendOrchestratorResponse(s, ws, "AI Orchestrator Commands", TRUE)
               [] cmd = Cmd_claude -> handleClaudeCommand(s, ws, rest)
               [] cmd \in {Cmd_gordon, Cmd_gordon_consult} -> handleGordonConsult(s, ws, rest)
               [] OTHER -> passCommandToTerminal(s, ws, command)

\* the case labels of the switch in handleOrchestratorCommand
switchCommands ==
    {Cmd_spawn, Cmd_spawn_claude, Cmd_spawn_hidden, Cmd_status, Cmd_send, Cmd_agent_comm,
     Cmd_broadcast, Cmd_logs, Cmd_handoff, Cmd_queue, Cmd_ohelp, Cmd_help, Cmd_claude,
     Cmd_gordon, Cmd_gordon_consult}

\* the table _handleTerminalInput matches the first word of a line against
orchestratorCommands ==
    {Cmd_ohelp, Cmd_status, Cmd_spawn, Cmd_spawn_claude, Cmd_spawn_hidden, Cmd_send,
     Cmd_broadcast, Cmd_logs, Cmd_destroy, Cmd_handoff, Cmd_queue, Cmd_gordon}

Str_DEL == "<DEL>"
Str_BS == "<BS>"
Str_prompt == <<"[","O","r","c","h","e","s","t","r","a","t","o","r","]","$"," ">>

HasTerminator(data) == \E i \in 1..Len(data) : data[i] \in {"\r", "\n"}

\* a table lookup that accepts every first word a table entry starts with
IsInterceptedLine_prefix(fullCommand) ==
    LET firstWord == ToLowerCase(FirstWord(fullCommand))
    IN  \E c \in orchestratorCommands :
           Len(firstWord) <= Len(c) /\ Slice(c, 1, Len(firstWord)) = firstWord

IsInterceptedLine(fullCommand) == ToLowerCase(FirstWord(fullCommand)) \in orchestratorCommands

\* _handleTerminalInput: one chunk of control-session input
handleControlInput_promptFirst(s, ws, data, spawnOk) ==
    IF s.orchestratorTerminal = NoTerminal THEN s
    ELSE LET ctl == s.orchestratorTerminal
             buffered == s.inputBuffer \o data
         IN  IF HasTerminator(data)
             THEN LET fullCommand == Trim(buffered)
                      s1 == [s EXCEPT !.inputBuffer = <<>>]
                  IN  IF IsInterceptedLine(fullCommand)
                      THEN LET s2 == PtyWrite(s1, ctl, fullCommand \o <<"\r", "\n">>)
                               s3 == PtyWrite(s2, ctl, Str_prompt)
                           IN  DispatchCommand(s3, ws, fullCommand, spawnOk)
                      ELSE PtyWrite(s1, ctl, data)
             ELSE IF data = <<Str_DEL>> \/ data = <<Str_BS>>
             THEN PtyWrite([s EXCEPT !.inputBuffer =
                                IF Len(buffered) > 0
                                THEN Slice(buffered, 1, Len(buffered) - 1)
                                ELSE buffered], ctl, data)
             ELSE PtyWrite([s EXCEPT !.inputBuffer = buffered], ctl, data)

handleControlInput(s, ws, data, spawnOk) ==
    IF s.orchestratorTerminal = NoTerminal THEN s
    ELSE LET ctl == s.orchestratorTerminal
             buffered == s.inputBuffer \o data
         IN  IF HasTerminator(data)
             THEN LET fullCommand == Trim(buffered)
                      s1 == [s EXCEPT !.inputBuffer = <<>>]
                  IN  IF IsInterceptedLine(fullCommand)
                      THEN LET s2 == PtyWrite(s1, ctl, fullCommand \o <<"\r", "\n">>)
                               s3 == DispatchCommand(s2, ws, fullCommand, spawnOk)
                           IN  PtyWrite(s3, ctl, Str_prompt)
                      ELSE PtyWrite(s1, ctl, data)
             ELSE IF data = <<Str_DEL>> \/ data = <<Str_BS>>
             THEN PtyWrite([s EXCEPT !.inputBuffer =
                                IF Len(buffered) > 0
                                THEN Slice(buffered, 1, Len(buffered) - 1)
                                ELSE buffered], ctl, data)
             ELSE PtyWrite([s EXCEPT !.inputBuffer = buffered], ctl, data)

\* handleOrchestratorCommand: message is {action, targets, subtype, data, command},
\* an absent text field being <<>>
handleOrchestratorCommand(s, ws, message, spawnOk) ==
    IF message.action = "send-to-agents" /\ message.targets /\ message.command # <<>>
    THEN handleChatBroadcast(s, ws)
    ELSE IF message.subtype = "terminal-input" /\ message.data # <<>>
    THEN handleControlInput(s, ws, message.data, spawnOk)
    ELSE DispatchCommand(s, ws, message.command, spawnOk)

----------------------------------------------------------------------------
(* MessageRouter.  A registered function is a record of its name and of    *)
(* what it does when invoked: a middleware invokes its continuation and    *)
(* awaits it ("next"), returns without invoking it ("halt") or raises      *)
(* ("throw"); a handler or a callback returns ("ok") or raises ("throws"). *)
(* A frame is a sequence of JSON tokens.                                   *)

\* the function fn was invoked for connection ws; returned: it did not raise
Invoked(s, kind, ws, fn, returned) ==
    [s EXCEPT !.log = Append(@, [kind |-> kind, to |-> ws, type |-> fn.name,
                                 success |-> returned, terminalId |-> NoTerminal,
                                 error |-> "", data |-> <<>>])]

\* the JSON value null, and the value of a property an object does not have
Null == [isNull |-> TRUE, type |-> "-"]
Undefined == "undefined"

\* JSON.parse(data.toString()) does not raise: the frames of the model are
\* the texts null, {} and {"type": <string>}, and broken pieces of them
IsJSON(data) ==
    \/ data = <<"null">>
    \/ data = <<"{", "}">>
    \/ /\ Len(data) = 5
       /\ data[1] = "{" /\ data[2] = "type" /\ data[3] = ":" /\ data[5] = "}"
       /\ data[4] \notin {"{", "}", ":", "null"}

\* JSON.parse(data.toString()) of a frame that is JSON
JSONParse(data) ==
    IF data = <<"null">> THEN Null
    ELSE [isNull |-> FALSE, type |-> IF Len(data) = 5 THEN data[4] ELSE Undefined]

\* registerHandler(messageType, handler): the last registration wins
registerHandler(s, messageType, handler) ==
    [s EXCEPT !.router.handlers = MapSet(@, messageType, handler)]

\* addMiddleware(middlewareFunction)
addMiddleware(s, middlewareFunction) ==
    [s EXCEPT !.router.middleware = Append(@, middlewareFunction)]

\* onDisconnection(callback)
onDisconnection(s, callback) ==
    [s EXCEPT !.router.onDisconnectionCallbacks = Append(@, callback)]

\* a routing that keeps quiet about a type nobody handles
routeMessage_silent(s, ws, message) ==
    IF message.type \in DOMAIN s.router.handlers
    THEN LET handler == s.router.handlers[message.type]
             s1 == Invoked(s, "handler", ws, handler, handler.kind = "ok")
         IN  IF handler.kind = "throws"
             THEN sendError(s1, ws, "Error processing", <<message.type>>)
             ELSE s1
    ELSE s

\* routeMessage(ws, message): a handler that raises is answered for, here
routeMessage(s, ws, message) ==
    IF message.type \in DOMAIN s.router.handlers
    THEN LET handler == s.router.handlers[message.type]
             s1 == Invoked(s, "handler", ws, handler, handler.kind = "ok")
         IN  IF handler.kind = "throws"
             THEN sendError(s1, ws, "Error processing", <<message.type>>)
             ELSE s1
    ELSE sendError(s, ws, "Unknown message type", <<message.type>>)

RECURSIVE next_pastHalt(_, _, _, _)
RECURSIVE next(_, _, _, _)

\* a continuation that goes on to the following middleware by itself when
\* one returns without invoking it
next_pastHalt(s, ws, message, middlewareIndex) ==
    IF middlewareIndex < Len(s.router.middleware)
    THEN LET middleware == s.router.middleware[middlewareIndex + 1]
             s1 == Invoked(s, "middleware", ws, middleware, middleware.kind # "throw")
         IN  IF middleware.kind = "throw" THEN [s |-> s1, thrown |-> TRUE]
             ELSE next_pastHalt(s1, ws, message, middlewareIndex + 1)
    ELSE [s |-> routeMessage(s, ws, message), thrown |-> FALSE]

\* the closure next of handleMessage, called with middlewareIndex as it
\* stands: the state after it, and whether it raised
next(s, ws, message, middlewareIndex) ==
    IF middlewareIndex < Len(s.router.middleware)
    THEN LET middleware == s.router.middleware[middlewareIndex + 1]
             s1 == Invoked(s, "middleware", ws, middleware, middleware.kind # "throw")
         IN  CASE middleware.kind = "next" -> next(s1, ws, message, middlewareIndex + 1)
               [] middleware.kind = "halt" -> [s |-> s1, thrown |-> FALSE]
               [] OTHER -> [s |-> s1, thrown |-> TRUE]
    ELSE [s |-> routeMessage(s, ws, message), thrown |-> FALSE]

\* a message handling that drops what it cannot parse
handleMessage_silent(s, ws, data) ==
    IF ~IsJSON(data) THEN s
    ELSE LET message == JSONParse(data)
         IN  IF message = Null THEN sendError(s, ws, "Invalid message format", <<>>)
             ELSE LET r == next(s, ws, message, 0)
                  IN  IF r.thrown THEN sendError(r.s, ws, "Invalid message format", <<>>)
                      ELSE r.s

\* handleMessage(ws, data): whatever raises inside the try block (the parse,
\* the read of message.type of null, a middleware) is answered the same way
handleMessage(s, ws, data) ==
    IF ~IsJSON(data) THEN sendError(s, ws, "Invalid message format", <<>>)
    ELSE LET message == JSONParse(data)
         IN  IF message = Null THEN sendError(s, ws, "Invalid message format", <<>>)
             ELSE LET r == next(s, ws, message, 0)
                  IN  IF r.thrown THEN sendError(r.s, ws, "Invalid message format", <<>>)
                      ELSE r.s

RECURSIVE onClose_noCatch(_, _, _)
RECURSIVE onClose(_, _, _)

\* a close handler without the try around each callback
onClose_noCatch(s, ws, callbacks) ==
    IF callbacks = <<>> THEN s
    ELSE LET callback == Head(callbacks)
             s1 == Invoked(s, "callback", ws, callback, callback.kind = "ok")
         IN  IF callback.kind = "throws" THEN s1
             ELSE onClose_noCatch(s1, ws, Tail(callbacks))

\* ws.on("close", ...): forEach over the callbacks that are left to run
onClose(s, ws, callbacks) ==
    IF callbacks = <<>> THEN s
    ELSE onClose(Invoked(s, "callback", ws, Head(callbacks), Head(callbacks).kind = "ok"),
                 ws, Tail(callbacks))

----------------------------------------------------------------------------
(* Inputs *)

Str_w == <<"w">>

\* terminal-create messages: an agent CLI session, a plain shell, and a
\* connection type that is not "local"
CreateMessages ==
    { [agentType |-> "claude", mcpServers |-> FALSE, agentName |-> Str_w, connectionType |-> ""],
      [agentType |-> "", mcpServers |-> FALSE, agentName |-> Str_w, connectionType |-> "local"],
      [agentType |-> "claude", mcpServers |-> FALSE, agentName |-> Str_w, connectionType |-> "ssh"] }

InputData == { <<"x">> }
CommandTexts == { <<"l","s">> }

\* output chunks of a process: plain output and a handoff request
Str_handoffChunk == Str_handoffTo \o <<"r"," ","g","o","\n">>
OutputChunks == { <<"o">>, Str_handoffChunk }

\* orchestrator-command messages {command}: as a user types them, and with
\* the two characters backslash and s where a user types a blank
Str_x == <<"x">>
Sep == <<"\\", "s">>
OrchestratorCommandTexts ==
    { Cmd_spawn \o <<" ">> \o Str_w,
      Cmd_spawn \o Sep \o Str_w,
      Cmd_spawn_claude \o Sep \o Str_w,
      Cmd_status,
      Cmd_send \o Sep \o Str_w \o Sep \o Str_x,
      Cmd_broadcast \o Sep \o Str_x }

CommandMessage(command) ==
    [action |-> "", targets |-> FALSE, subtype |-> "", data |-> <<>>, command |-> command]

InputMessage(data) ==
    [action |-> "", targets |-> FALSE, subtype |-> "terminal-input", data |-> data,
     command |-> <<>>]

\* chunks of control-session input: typed text, an erase key, a terminator
ControlChunks ==
    { Cmd_status, <<"l","s">>, Cmd_spawn \o <<" ">> \o Str_w, <<" ">>, <<Str_DEL>>, <<"\r">> }

\* the sessions and traffic of a pool of agents: two agent names, output
\* chunks with and without a handoff request, and the directives that look
\* an agent up by name
Str_t == <<"t">>
Str_r == <<"r">>
Str_z == <<"z">>
AgentMessages ==
    { [agentType |-> "claude", mcpServers |-> FALSE, agentName |-> n, connectionType |-> ""] :
        n \in {Str_w, Str_t} }

Str_handoffBare == <<"H","A","N","D","O","F","F","-","T","O",":","q">>
AgentChunks == { <<"o">>, Str_handoffChunk, Str_handoffBare }

SendText(name) == Cmd_send \o Sep \o name \o Sep \o Str_x
HandoffText(from, to) == Cmd_handoff \o Sep \o from \o Sep \o to
BroadcastText == Cmd_broadcast \o Sep \o Str_x
AgentCommandTexts ==
    { SendText(Str_w), SendText(Str_t), HandoffText(Str_w, Str_r), HandoffText(Str_z, Str_r),
      BroadcastText, Cmd_status }

\* whole control-session lines that arrive as one chunk, terminator included
Str_destroy_w == Cmd_destroy \o <<" ">> \o Str_w
PastedLines ==
    { Str_destroy_w \o <<"\r">>, Cmd_help \o <<"\r">>, <<" ", "\r">> }

----------------------------------------------------------------------------
(* Initial state: the services as constructed *)

EmptyMap == [k \in {} |-> NoTerminal]

Init ==
    /\ maxTerminals = MaxTerminals
    /\ terminals = <<>>
    /\ terminalTimeouts = EmptyMap
    /\ agentHandoffs = EmptyMap
    /\ timers = {}
    /\ procs = [k \in Ids |-> [state |-> "none", clientWs |-> "-"]]
    /\ nextId = 1
    /\ orchestratorTerminal = NoTerminal
    /\ inputBuffer = <<>>
    /\ typedLine = <<>>
    /\ destroyed = {}
    /\ router = [handlers |-> EmptyMap, middleware |-> <<>>, onDisconnectionCallbacks |-> <<>>]
    /\ readyState = [ws \in Sockets |-> OPEN]
    /\ rejected = {}
    /\ outputBufferLimit = 0
    /\ sentSince = [ws \in Sockets |-> <<>>]
    /\ log = <<>>
    /\ lastOp = [op |-> "init", ws |-> "-", id |-> NoTerminal, data |-> <<>>]

Op(op, ws, id, data) == lastOp' = [op |-> op, ws |-> ws, id |-> id, data |-> data]

HistoryLen(s, tid) ==
    IF tid \in DOMAIN s.agentHandoffs THEN Len(s.agentHandoffs[tid].history) ELSE 0

----------------------------------------------------------------------------
(* Actions: one per message handler, process event and timer *)

TerminalCreate(ws, message, spawnOk) ==
    /\ (~AtCapacity(St) => nextId <= MaxIds)
    /\ Commit(createTerminal(St, ws, message, spawnOk))
    /\ Op("terminal-create", ws, NoTerminal, message.agentName)

\* a create message of a client of the pool, drawing on the whole of Ids
PoolCreate(ws, message) ==
    /\ nextId \in PoolIds
    /\ Commit(createTerminal(St, ws, message, TRUE))
    /\ Op("terminal-create", ws, NoTerminal, message.agentName)

TerminalInput(ws, tid, data) ==
    /\ Commit(handleTerminalInput(St, ws, tid, data))
    /\ Op("terminal-input", ws, tid, data)

TerminalCommand(ws, tid, command) ==
    /\ Commit(handleTerminalCommand(St, ws, tid, command))
    /\ Op("terminal-command", ws, tid, command)

TerminalDestroy(ws, tid) ==
    /\ Commit([handleDestroyTerminal(St, ws, tid) EXCEPT
                  !.destroyed = IF TermHas(terminals, tid) THEN @ \cup {tid} ELSE @])
    /\ Op("terminal-destroy", ws, tid, <<>>)

\* the process of terminal tid emits an output chunk
PtyData(tid, data) ==
    /\ procs[tid].state = "running"
    /\ (HandoffPatternMatch(data).matched => HistoryLen(St, tid) < MaxHandoffs)
    /\ Commit(OnData(St, tid, data))
    /\ Op("data", "-", tid, data)

\* the process of terminal tid ends, by itself or after a kill; its exit
\* event is queued
ProcessDies(tid) ==
    /\ procs[tid].state = "running"
    /\ Commit([St EXCEPT !.procs[tid].state = "exited"])
    /\ Op("dies", "-", tid, <<>>)

\* the queued exit event of terminal tid is handled
PtyExit(tid) ==
    /\ procs[tid].state = "exited"
    /\ Commit(OnExit([St EXCEPT !.procs[tid].state = "reaped"], tid))
    /\ Op("exit", "-", tid, <<>>)

\* an eviction timer whose window has passed runs its callback
TimeoutFires(t) ==
    /\ t.age >= Window
    /\ Commit(TimeoutCallback([St EXCEPT !.timers = @ \ {t}], t.tid))
    /\ Op("timeout", "-", t.tid, <<>>)

Older(n) == IF n < Window THEN n + 1 ELSE n

\* one unit of time passes
Tick ==
    /\ Commit([St EXCEPT !.timers = {[t EXCEPT !.age = Older(@)] : t \in @}])
    /\ Op("tick", "-", NoTerminal, <<>>)

OrchestratorInit(ws, spawnOk) ==
    /\ (~AtCapacity(St) => nextId <= MaxIds)
    /\ Commit(handleOrchestratorInit(St, ws, spawnOk))
    /\ Op("orchestrator-init", ws, NoTerminal, <<>>)

\* no handoff record of s holds more than MaxTransitions transitions
WithinTransitions(s) ==
    \A tid \in DOMAIN s.agentHandoffs : Len(s.agentHandoffs[tid].history) <= MaxTransitions

OrchestratorCommand(ws, command, spawnOk) ==
    /\ (~AtCapacity(St) => nextId <= MaxIds)
    /\ WithinTransitions(handleOrchestratorCommand(St, ws, CommandMessage(command), spawnOk))
    /\ Commit(handleOrchestratorCommand(St, ws, CommandMessage(command), spawnOk))
    /\ Op("orchestrator-command", ws, NoTerminal, command)

\* the line a user has on screen after typing one more chunk
TypedAfter(typed, data) ==
    IF data = <<Str_DEL>> \/ data = <<Str_BS>>
    THEN IF Len(typed) > 0 THEN Slice(typed, 1, Len(typed) - 1) ELSE typed
    ELSE IF HasTerminator(data) THEN <<>>
    ELSE typed \o data

\* what a connection has sent of its line after one more chunk
SentAfter(sent, data) ==
    IF HasTerminator(data) THEN <<>>
    ELSE IF data = <<Str_DEL>> \/ data = <<Str_BS>> THEN sent
    ELSE sent \o data

\* one chunk of control-session input arrives (orchestrator-command with
\* subtype terminal-input)
ControlInput(ws, data, spawnOk) ==
    /\ (~AtCapacity(St) => nextId <= MaxIds)
    /\ Len(inputBuffer) + Len(data) + (IF HasTerminator(data) THEN 0 ELSE 1) <= MaxLine
    /\ Len(sentSince[ws]) + Len(data) <= MaxLine
    /\ LET s == handleOrchestratorCommand(St, ws, InputMessage(data), spawnOk)
       IN  Commit([s EXCEPT !.typedLine = IF orchestratorTerminal = NoTerminal THEN @
                                          ELSE TypedAfter(@, data),
                            !.sentSince[ws] = IF orchestratorTerminal = NoTerminal THEN @
                                              ELSE SentAfter(@, data)])
    /\ Op("control-input", ws, orchestratorTerminal, data)

Next ==
    \/ \E ws \in Conns, message \in CreateMessages, spawnOk \in BOOLEAN :
          TerminalCreate(ws, message, spawnOk)
    \/ \E ws \in Conns, tid \in Ids, data \in InputData : TerminalInput(ws, tid, data)
    \/ \E ws \in Conns, tid \in Ids, command \in CommandTexts : TerminalCommand(ws, tid, command)
    \/ \E ws \in Conns, tid \in Ids : TerminalDestroy(ws, tid)
    \/ \E tid \in Ids, data \in OutputChunks : PtyData(tid, data)
    \/ \E tid \in Ids : ProcessDies(tid)
    \/ \E tid \in Ids : PtyExit(tid)
    \/ \E t \in timers : TimeoutFires(t)
    \/ Tick

Spec == Init /\ [][Next]_vars

\* the orchestrator service on top of the session manager
NextOrch ==
    \/ \E ws \in Conns, spawnOk \in BOOLEAN :
          TerminalCreate(ws, [agentType |-> "claude", mcpServers |-> FALSE,
                              agentName |-> Str_w, connectionType |-> ""], spawnOk)
    \/ \E ws \in Conns, spawnOk \in BOOLEAN : OrchestratorInit(ws, spawnOk)
    \/ \E ws \in Conns, command \in OrchestratorCommandTexts, spawnOk \in BOOLEAN :
          OrchestratorCommand(ws, command, spawnOk)
    \/ \E ws \in Conns, data \in ControlChunks, spawnOk \in BOOLEAN :
          ControlInput(ws, data, spawnOk)
    \/ \E t \in timers : TimeoutFires(t)
    \/ Tick

SpecOrch == Init /\ [][NextOrch]_vars

\* a whole line arrives as one chunk of control-session input at the start
\* of a line
ControlPaste(ws, data, spawnOk) ==
    /\ (~AtCapacity(St) => nextId <= MaxIds)
    /\ inputBuffer = <<>>
    /\ LET s == handleOrchestratorCommand(St, ws, InputMessage(data), spawnOk)
       IN  Commit([s EXCEPT !.typedLine = IF orchestratorTerminal = NoTerminal THEN @
                                          ELSE TypedAfter(@, data),
                            !.sentSince[ws] = IF orchestratorTerminal = NoTerminal THEN @
                                              ELSE SentAfter(@, data)])
    /\ Op("control-input", ws, orchestratorTerminal, data)

\* the line interceptor of the control session
NextLine ==
    \/ \E ws \in Conns, spawnOk \in BOOLEAN :
          TerminalCreate(ws, [agentType |-> "claude", mcpServers |-> FALSE,
                              agentName |-> Str_w, connectionType |-> ""], spawnOk)
    \/ \E ws \in Conns, spawnOk \in BOOLEAN : OrchestratorInit(ws, spawnOk)
    \/ \E ws \in Conns, data \in ControlChunks, spawnOk \in BOOLEAN :
          ControlInput(ws, data, spawnOk)
    \/ \E ws \in Conns, data \in PastedLines, spawnOk \in BOOLEAN :
          ControlPaste(ws, data, spawnOk)

SpecLine == Init /\ [][NextLine]_vars

\* a TerminalManager constructed with room for one more session
InitPool ==
    /\ maxTerminals = MaxTerminals + 1
    /\ terminals = <<>>
    /\ terminalTimeouts = EmptyMap
    /\ agentHandoffs = EmptyMap
    /\ timers = {}
    /\ procs = [k \in PoolIds |-> [state |-> "none", clientWs |-> "-"]]
    /\ nextId = 1
    /\ orchestratorTerminal = NoTerminal
    /\ inputBuffer = <<>>
    /\ typedLine = <<>>
    /\ destroyed = {}
    /\ router = [handlers |-> EmptyMap, middleware |-> <<>>, onDisconnectionCallbacks |-> <<>>]
    /\ readyState = [ws \in Sockets |-> OPEN]
    /\ rejected = {}
    /\ outputBufferLimit = 0
    /\ sentSince = [ws \in Sockets |-> <<>>]
    /\ log = <<>>
    /\ lastOp = [op |-> "init", ws |-> "-", id |-> NoTerminal, data |-> <<>>]

\* the process of terminal tid emits an output chunk, in a pool of agents
AgentData(tid, data) ==
    /\ procs[tid].state = "running"
    /\ WithinTransitions(OnData(St, tid, data))
    /\ Commit(OnData(St, tid, data))
    /\ Op("data", "-", tid, data)

\* a pool of agent sessions: their output, their end, and the directives
\* that address them
NextAgents ==
    \/ \E ws \in Conns, message \in AgentMessages : TerminalCreate(ws, message, TRUE)
    \/ \E ws \in Conns, tid \in Ids : TerminalDestroy(ws, tid)
    \/ \E tid \in Ids, data \in AgentChunks : AgentData(tid, data)
    \/ \E tid \in Ids : ProcessDies(tid)
    \/ \E tid \in Ids : PtyExit(tid)
    \/ \E ws \in Conns, command \in AgentCommandTexts : OrchestratorCommand(ws, command, TRUE)

SpecAgents == InitPool /\ [][NextAgents]_vars

\* a create request arrives while the process cannot be started (pty.spawn throws)
SpawnFailure(ws, message) ==
    /\ (~AtCapacity(St) => nextId <= MaxIds)
    /\ Commit(createTerminal(St, ws, message, FALSE))
    /\ Op("terminal-create-unspawned", ws, NoTerminal, message.agentName)

\* session creation with and without a process that starts
NextSpawn ==
    \/ \E ws \in Conns, message \in AgentMessages : TerminalCreate(ws, message, TRUE)
    \/ \E ws \in Conns, message \in AgentMessages : SpawnFailure(ws, message)
    \/ \E ws \in Conns, tid \in Ids : TerminalDestroy(ws, tid)
    \/ \E tid \in Ids : ProcessDies(tid)
    \/ \E tid \in Ids : PtyExit(tid)
    \/ \E t \in timers : TimeoutFires(t)
    \/ Tick

SpecSpawn == Init /\ [][NextSpawn]_vars

\* chunks of control-session input without erase keys
SharedChunks == { Cmd_status, <<"x">>, <<"\r">> }

\* two connections type into the control session
NextShared ==
    \/ \E ws \in Conns :
          TerminalCreate(ws, [agentType |-> "claude", mcpServers |-> FALSE,
                              agentName |-> Str_w, connectionType |-> ""], TRUE)
    \/ \E ws \in Conns : OrchestratorInit(ws, TRUE)
    \/ \E ws \in Sockets, data \in SharedChunks : ControlInput(ws, data, TRUE)

SpecShared == Init /\ [][NextShared]_vars

\* the spawn directives, as the dispatcher tokenizes them
SpawnTexts == { Cmd_spawn \o Sep \o Str_w, Cmd_spawn_claude \o Sep \o Str_t }

\* every way a session enters and leaves the registry, from two connections
NextCapacity ==
    \/ \E ws \in Sockets :
          TerminalCreate(ws, [agentType |-> "claude", mcpServers |-> FALSE,
                              agentName |-> Str_w, connectionType |-> ""], TRUE)
    \/ \E ws \in Conns : OrchestratorInit(ws, TRUE)
    \/ \E ws \in Conns, command \in SpawnTexts : OrchestratorCommand(ws, command, TRUE)
    \/ \E ws \in Conns, tid \in Ids : TerminalDestroy(ws, tid)
    \/ \E tid \in Ids : ProcessDies(tid)
    \/ \E tid \in Ids : PtyExit(tid)
    \/ \E t \in timers : TimeoutFires(t)
    \/ Tick

SpecCapacity == Init /\ [][NextCapacity]_vars

\* the functions an application registers with the router
Middlewares ==
    { [name |-> "auth", kind |-> "next"], [name |-> "audit", kind |-> "next"],
      [name |-> "gate", kind |-> "halt"], [name |-> "fault", kind |-> "throw"] }
HandlerTypes == {"ping"}
Handlers == { [name |-> "onPing", kind |-> "ok"], [name |-> "onPingFaulty", kind |-> "throws"] }
Callbacks ==
    { [name |-> "cleanup", kind |-> "ok"], [name |-> "release", kind |-> "ok"],
      [name |-> "faulty", kind |-> "throws"] }

\* the text frames a client sends
Frames ==
    { <<"{", "type", ":", "ping", "}">>, <<"{", "type", ":", "nope", "}">>, <<"{", "}">>,
      <<"null">>, <<"{", "type">>, <<"ping">> }

\* the arrays of connections a broadcast is given: no connection twice
ConnectionLists ==
    { c \in UNION { [1..n -> Sockets \cup {NoSocket}] : n \in 0..MaxConnections } :
        \A i, j \in DOMAIN c : c[i] = c[j] => i = j }

\* the value a function of the gateway returned to its caller
Returned(s, fn, value) ==
    [s EXCEPT !.log = Append(@, [kind |-> "return", to |-> "-", type |-> fn,
                                 success |-> TRUE, terminalId |-> NoTerminal,
                                 error |-> "", data |-> <<value>>])]

RegisterHandler(messageType, handler) ==
    /\ Commit(registerHandler(St, messageType, handler))
    /\ Op("register-handler", "-", NoTerminal, <<messageType>>)

AddMiddleware(middlewareFunction) ==
    /\ Len(router.middleware) < MaxMiddleware
    /\ Commit(addMiddleware(St, middlewareFunction))
    /\ Op("add-middleware", "-", NoTerminal, <<>>)

OnDisconnection(callback) ==
    /\ Len(router.onDisconnectionCallbacks) < MaxCallbacks
    /\ Commit(onDisconnection(St, callback))
    /\ Op("on-disconnection", "-", NoTerminal, <<>>)

\* a text frame arrives on an open connection
Message(ws, data) ==
    /\ readyState[ws] = OPEN
    /\ Commit([handleMessage(St, ws, data) EXCEPT
                 !.rejected = IF IsJSON(data) THEN @ ELSE @ \cup {ws}])
    /\ Op("message", ws, NoTerminal, data)

\* a connection closes: the socket is CLOSED when its close event is emitted
Close(ws) ==
    /\ readyState[ws] = OPEN
    /\ Commit(onClose([St EXCEPT !.readyState[ws] = CLOSED], ws,
                      router.onDisconnectionCallbacks))
    /\ Op("close", ws, NoTerminal, <<>>)

\* the application broadcasts a notice to the connections it names
Broadcast(connections) ==
    /\ LET r == broadcastMessage(St, connections, "notice", <<"x">>, 0)
       IN  Commit(Returned(r.s, "broadcastMessage", r.value))
    /\ Op("broadcast", "-", NoTerminal, connections)

\* the router: registration, frames and closing connections
NextRouter ==
    \/ \E messageType \in HandlerTypes, handler \in Handlers : RegisterHandler(messageType, handler)
    \/ \E middlewareFunction \in Middlewares : AddMiddleware(middlewareFunction)
    \/ \E ws \in Sockets, data \in Frames : Message(ws, data)
    \/ \E ws \in Sockets : Close(ws)

SpecRouter == Init /\ [][NextRouter]_vars

\* closing connections and broadcasts
NextClose ==
    \/ \E callback \in Callbacks : OnDisconnection(callback)
    \/ \E ws \in Sockets : Close(ws)
    \/ \E connections \in ConnectionLists : Broadcast(connections)

SpecClose == Init /\ [][NextClose]_vars

\* handoffs of agent sessions, requested by their output and by directive
HandoffCommandTexts == { HandoffText(Str_w, Str_r), HandoffText(Str_z, Str_r) }

NextHandoff ==
    \/ \E ws \in Conns :
          TerminalCreate(ws, [agentType |-> "claude", mcpServers |-> FALSE,
                              agentName |-> Str_w, connectionType |-> ""], TRUE)
    \/ \E ws \in Conns, tid \in Ids : TerminalDestroy(ws, tid)
    \/ \E tid \in Ids, data \in AgentChunks : AgentData(tid, data)
    \/ \E tid \in Ids : ProcessDies(tid)
    \/ \E tid \in Ids : PtyExit(tid)
    \/ \E ws \in Conns, command \in HandoffCommandTexts : OrchestratorCommand(ws, command, TRUE)

SpecHandoff == Init /\ [][NextHandoff]_vars

----------------------------------------------------------------------------
(* Properties *)

Registered(terms, id) == id \in TermIds(terms)
TimersOf(tms, id) == {t \in tms : t.tid = id}
KillsOf(lg, id) == SelectSeq(lg, LAMBDA e : e.kind = "kill" /\ e.terminalId = id)
WritesTo(lg, id) == SelectSeq(lg, LAMBDA e : e.kind = "write" /\ e.terminalId = id)
Created(id) == procs[id].state # "none"

\* registry, eviction timers and handoff records are the same before and after
Untouched ==
    /\ terminals' = terminals
    /\ terminalTimeouts' = terminalTimeouts
    /\ agentHandoffs' = agentHandoffs
    /\ timers' = timers

\* the handler wrote nothing, killed nothing and sent the client exactly one
\* message of this type with success:false
OnlyFailure(lg, type) ==
    /\ Len(lg) = 1
    /\ lg[1].kind = "send" /\ lg[1].type = type /\ ~lg[1].success

\* C1: a create request that arrives while the registry holds maxTerminals
\* sessions is answered with terminal-created success:false, and registry,
\* eviction timers and handoff records are exactly as before the request.
C1_CreateAtCapacity ==
    [][ (lastOp'.op = "terminal-create" /\ Len(terminals) >= maxTerminals)
          => /\ OnlyFailure(log', "terminal-created")
             /\ log'[1].to = lastOp'.ws
             /\ Untouched ]_vars

C1_Witness ==
    /\ lastOp.op = "terminal-create"
    /\ Len(terminals) = maxTerminals
    /\ OnlyFailure(log, "terminal-created")
    /\ log[1].error = "Maximum number of terminals reached"

\* C2: a destroy request for an id whose destroy has already succeeded is
\* answered with terminal-destroyed success:false (not found) and leaves
\* registry, timers and handoff records as they were.
C2_DestroyTwice ==
    [][ (lastOp'.op = "terminal-destroy" /\ lastOp'.id \in destroyed)
          => /\ OnlyFailure(log', "terminal-destroyed")
             /\ log'[1].error = "Terminal not found"
             /\ log'[1].terminalId = lastOp'.id
             /\ Untouched ]_vars

C2_Witness ==
    /\ lastOp.op = "terminal-destroy"
    /\ lastOp.id \in destroyed
    /\ OnlyFailure(log, "terminal-destroyed")

\* C3: the handler of a destroy request for a registered id kills the
\* process, removes the id from the registry, cancels its eviction timer and
\* removes its handoff record before it returns, also when the process has
\* died and its exit event is still queued; no timer of a destroyed id is
\* ever pending afterwards.
C3_DestroyCleansUp ==
    [][ /\ (lastOp'.op = "terminal-destroy" /\ Registered(terminals, lastOp'.id))
            => /\ Len(KillsOf(log', lastOp'.id)) = 1
               /\ ~Registered(terminals', lastOp'.id)
               /\ TimersOf(timers', lastOp'.id) = {}
               /\ lastOp'.id \notin DOMAIN terminalTimeouts'
               /\ lastOp'.id \notin DOMAIN agentHandoffs'
               /\ log'[Len(log')].type = "terminal-destroyed" /\ log'[Len(log')].success
        /\ \A id \in destroyed' : TimersOf(timers', id) = {} /\ ~Registered(terminals', id)
      ]_vars

C3_Witness ==
    /\ lastOp.op = "terminal-destroy"
    /\ lastOp.id \in destroyed
    /\ Len(KillsOf(log, lastOp.id)) = 1
    /\ procs[lastOp.id].state = "exited"
    /\ TimersOf(timers, lastOp.id) = {}

\* C4: when the eviction timer of a registered session expires, the session
\* is destroyed once: its process is killed once and its registry entry,
\* timer entry and handoff record are removed; afterwards nothing kills the
\* process again, and neither a timer nor the exit event of the removed
\* session changes registry, timers or handoff records.
C4_EvictedOnce ==
    [][ /\ (lastOp'.op = "timeout" /\ Registered(terminals, lastOp'.id))
            => /\ Len(KillsOf(log', lastOp'.id)) = 1
               /\ ~Registered(terminals', lastOp'.id)
               /\ lastOp'.id \notin DOMAIN terminalTimeouts'
               /\ lastOp'.id \notin DOMAIN agentHandoffs'
               /\ TimersOf(timers', lastOp'.id) = {}
        /\ \A id \in Ids :
              (Created(id) /\ ~Registered(terminals, id))
                => /\ KillsOf(log', id) = <<>>
                   /\ ~Registered(terminals', id)
                   /\ (lastOp'.id = id /\ lastOp'.op \in {"exit", "timeout"}) => Untouched
      ]_vars

C4_Witness ==
    /\ lastOp.op = "timeout"
    /\ Created(lastOp.id)
    /\ Len(KillsOf(log, lastOp.id)) = 1
    /\ ~Registered(terminals, lastOp.id)
    /\ TimersOf(timers, lastOp.id) = {}

\* C5: at most one eviction timer is pending per session; a touch (the
\* timer reset done for a created session and for terminal-input and
\* terminal-command on a registered one) leaves exactly one timer for the
\* session, newly armed; and a session is evicted only by the timer armed at
\* its latest touch, once a full window has passed since then.
C5_TouchExtendsDeadline ==
    [][ /\ \A id \in Ids : Cardinality(TimersOf(timers', id)) <= 1
        /\ (lastOp'.op \in {"terminal-input", "terminal-command"}
               /\ Registered(terminals, lastOp'.id))
            => /\ Cardinality(TimersOf(timers', lastOp'.id)) = 1
               /\ \A t \in TimersOf(timers', lastOp'.id) :
                     t.age = 0 /\ t.h = terminalTimeouts'[lastOp'.id]
        /\ \A id \in Ids :
              (~Registered(terminals, id) /\ Registered(terminals', id))
                => /\ Cardinality(TimersOf(timers', id)) = 1
                   /\ \A t \in TimersOf(timers', id) :
                         t.age = 0 /\ t.h = terminalTimeouts'[id]
        /\ \A id \in Ids :
              (lastOp'.op = "timeout" /\ Registered(terminals, id)
                 /\ ~Registered(terminals', id))
                => \E t \in timers \ timers' :
                      t.tid = id /\ t.age >= Window /\ t.h = terminalTimeouts[id]
      ]_vars

C5_Witness ==
    /\ lastOp.op = "terminal-input"
    /\ Registered(terminals, lastOp.id)
    /\ Cardinality(TimersOf(timers, lastOp.id)) = 1
    /\ \A t \in TimersOf(timers, lastOp.id) : t.age = 0 /\ t.h = terminalTimeouts[lastOp.id]

\* C6: an output chunk from the process of a registered session resets the
\* session's idle timer to a full window.
C6_OutputIsTouch ==
    [][ (lastOp'.op = "data" /\ Registered(terminals', lastOp'.id))
          => /\ TimersOf(timers', lastOp'.id) # {}
             /\ \A t \in TimersOf(timers', lastOp'.id) : t.age = 0
      ]_vars

C6_Witness ==
    /\ lastOp.op = "data"
    /\ Registered(terminals, lastOp.id)
    /\ \E t \in TimersOf(timers, lastOp.id) : t.age > 0

\* the first whitespace-delimited token of a line, in lower case
FirstToken(line) ==
    LET str == Trim(line)
    IN  ToLowerCase(Slice(str, 1, RunLen(str, 1, "nonspace")))

\* a step that handles the terminator chunk of a control-session line
TerminatorStep ==
    /\ lastOp'.op = "control-input"
    /\ orchestratorTerminal # NoTerminal
    /\ HasTerminator(lastOp'.data)

\* the text of the line that the chunk handled in this step terminates
TerminatedLine == Trim(typedLine \o lastOp'.data)

\* C7: whichever path writes to the process of a registered session
\* (terminal-input, terminal-command, an orchestrator command such as send or
\* broadcast, a control-session chunk), the written session's idle timer is
\* reset to a full window.
C7_WriteIsTouch ==
    [][ \A id \in Ids :
          (lastOp'.op \in {"terminal-input", "terminal-command", "orchestrator-command",
                           "control-input"}
             /\ WritesTo(log', id) # <<>> /\ Registered(terminals', id))
            => /\ TimersOf(timers', id) # {}
               /\ \A t \in TimersOf(timers', id) : t.age = 0
      ]_vars

C7_Witness ==
    /\ lastOp.op \in {"orchestrator-command", "control-input"}
    /\ \E id \in Ids :
          /\ WritesTo(log, id) # <<>>
          /\ Registered(terminals, id)
          /\ \E t \in TimersOf(timers, id) : t.age > 0

Str_spawn_w == Cmd_spawn \o <<" ">> \o Str_w

\* C8: the line "spawn w", sent as an orchestrator command or entered in the
\* control session, while the registry is below capacity, adds one session to
\* the registry, and that session's agent name is w.
C8_SpawnCreates ==
    [][ ( /\ Len(terminals) < maxTerminals
          /\ \/ lastOp'.op = "orchestrator-command" /\ lastOp'.data = Str_spawn_w
             \/ TerminatorStep /\ TerminatedLine = Str_spawn_w )
          => /\ Len(terminals') = Len(terminals) + 1
             /\ terminals'[Len(terminals')].agentName = Str_w
      ]_vars

C8_Witness ==
    /\ lastOp.op = "orchestrator-command"
    /\ lastOp.data = Str_spawn_w
    /\ Len(terminals) = 0
    /\ Len(log) = 1 /\ log[1].type = "orchestrator-response" /\ ~log[1].success

\* C9: handling the terminator of a control-session line whose first token
\* is a directive name (of the interceptor's table and of the dispatcher's
\* switch alike) writes nothing to the control process that carries the
\* line's text followed by a line terminator.
C9_DirectiveNotForwarded ==
    [][ (TerminatorStep
           /\ FirstToken(TerminatedLine) \in orchestratorCommands \cap switchCommands)
          => \A i \in 1..Len(log') :
                (log'[i].kind = "write" /\ log'[i].terminalId = orchestratorTerminal)
                  => /\ ~Includes(log'[i].data, TerminatedLine \o <<"\r">>)
                     /\ ~Includes(log'[i].data, TerminatedLine \o <<"\n">>)
      ]_vars

C9_Witness ==
    /\ lastOp.op = "control-input"
    /\ HasTerminator(lastOp.data)
    /\ \E i \in 1..Len(log) :
          /\ log[i].kind = "write"
          /\ log[i].terminalId = lastOp.id
          /\ log[i].data = Cmd_status \o <<"\r", "\n">>

\* C10: every chunk of a control-session line whose first token is no
\* directive name (neither of the interceptor's table nor of the dispatcher's
\* switch) is written to the control process once, as it came: the writes of
\* the step that handles the chunk are exactly the chunk.
C10_PassthroughVerbatim ==
    [][ ( /\ lastOp'.op = "control-input"
          /\ orchestratorTerminal # NoTerminal
          /\ (HasTerminator(lastOp'.data)
                 => FirstToken(TerminatedLine) \notin orchestratorCommands \cup switchCommands) )
          => /\ Len(Writes(log')) = 1
             /\ Writes(log')[1].terminalId = orchestratorTerminal
             /\ Writes(log')[1].data = lastOp'.data
      ]_vars

\* a step that handles one chunk of control-session input
ControlStep ==
    /\ lastOp'.op = "control-input"
    /\ orchestratorTerminal # NoTerminal

IsEraseChunk(data) == data = <<Str_DEL>> \/ data = <<Str_BS>>

\* the text without its last character
DropLast(str) == IF Len(str) > 0 THEN Slice(str, 1, Len(str) - 1) ELSE str

\* C11: an un-terminated chunk that is the single character DEL or BS removes
\* the last character buffered before it from the line buffer (nothing from
\* an empty buffer), so after every chunk the buffer reads as the line the
\* user has typed with the erased characters removed.
C11_BackspaceErases ==
    [][ ControlStep
          => /\ IsEraseChunk(lastOp'.data) => inputBuffer' = DropLast(inputBuffer)
             /\ inputBuffer' = typedLine'
      ]_vars

C11_Witness ==
    /\ lastOp.op = "control-input"
    /\ IsEraseChunk(lastOp.data)
    /\ inputBuffer = Cmd_status
    /\ typedLine = DropLast(Cmd_status)

\* the directive names of the documented vocabulary
Vocabulary ==
    {Cmd_spawn, Cmd_spawn_claude, Cmd_spawn_hidden, Cmd_status, Cmd_send, Cmd_broadcast,
     Cmd_logs, Cmd_handoff, Cmd_queue, Cmd_ohelp, Cmd_help, Cmd_claude, Cmd_gordon}

\* the handler treated the line as a directive: it wrote the prompt to the
\* control process after acting
Intercepted(lg, ctl) ==
    \E i \in 1..Len(lg) :
       lg[i].kind = "write" /\ lg[i].terminalId = ctl /\ lg[i].data = Str_prompt

\* the handler passed the chunk through: its only effect is one write of the
\* chunk to the control process
PassedThrough(lg, ctl, data) ==
    /\ Len(lg) = 1
    /\ lg[1].kind = "write" /\ lg[1].terminalId = ctl /\ lg[1].data = data

\* C12: the line in the buffer when its terminator arrives is handled as a
\* directive exactly when its first whitespace-delimited token, in lower
\* case, is a name of the vocabulary; every other line is passed through.
C12_VocabularyClassifies ==
    [][ TerminatorStep
          => LET token == FirstToken(inputBuffer \o lastOp'.data)
             IN  /\ token \in Vocabulary => Intercepted(log', orchestratorTerminal)
                 /\ token \notin Vocabulary
                       => PassedThrough(log', orchestratorTerminal, lastOp'.data)
      ]_vars

C12_Witness ==
    /\ lastOp.op = "control-input"
    /\ lastOp.data = Cmd_help \o <<"\r">>
    /\ PassedThrough(log, lastOp.id, lastOp.data)

IsBlank(str) == \A i \in 1..Len(str) : IsSpaceChar(str[i])

\* C13: when the terminator arrives and the buffered line holds nothing but
\* whitespace, the chunk is written to the control process as it came and
\* nothing else happens: no message to the client, no echo, no prompt.
C13_BlankLinePassesThrough ==
    [][ (TerminatorStep /\ IsBlank(inputBuffer) /\ IsBlank(lastOp'.data))
          => /\ PassedThrough(log', orchestratorTerminal, lastOp'.data)
             /\ inputBuffer' = <<>>
             /\ Untouched
      ]_vars

C13_Witness ==
    /\ lastOp.op = "control-input"
    /\ lastOp.data = <<" ", "\r">>
    /\ lastOp.id # NoTerminal
    /\ PassedThrough(log, lastOp.id, lastOp.data)

NamedSessions(terms, name) ==
    {terms[i].terminalId : i \in {j \in 1..Len(terms) : terms[j].agentName = name}}

\* C14: the line "destroy w" entered in the control session while a session
\* named w is registered removes that session from the registry.
C14_DestroyDirective ==
    [][ (TerminatorStep /\ TerminatedLine = Str_destroy_w
           /\ NamedSessions(terminals, Str_w) # {})
          => \E id \in NamedSessions(terminals, Str_w) : ~Registered(terminals', id)
      ]_vars

C14_Witness ==
    /\ lastOp.op = "control-input"
    /\ lastOp.data = Str_destroy_w \o <<"\r">>
    /\ NamedSessions(terminals, Str_w) # {}
    /\ \E i \in 1..Len(log) :
          log[i].kind = "send" /\ log[i].type = "orchestrator-response" /\ ~log[i].success

\* the handoff record of a session, as getHandoffHistory reports it
RecordOf(hs, id) ==
    IF id \in DOMAIN hs THEN hs[id] ELSE [currentAgent |-> <<>>, history |-> <<>>]

HistoryOf(hs, id) == RecordOf(hs, id).history

\* the agent a registered session is currently run by
CurrentAgentOf(terms, hs, id) ==
    IF id \in DOMAIN hs THEN hs[id].currentAgent ELSE TermGet(terms, id).agentName

\* what an output chunk asks for: "handoff-to:r go" names r with the text go,
\* "HANDOFF-TO:q" names q without a text, anything else asks for nothing
RequestedBy(data) ==
    CASE data = Str_handoffChunk ->
             [asks |-> TRUE, name |-> Str_r, message |-> <<"g", "o">>]
      [] data = Str_handoffBare ->
             [asks |-> TRUE, name |-> <<"q">>, message |-> Str_NoContext]
      [] OTHER -> [asks |-> FALSE, name |-> <<>>, message |-> <<>>]

\* a step in which a handoff is requested, by output or by directive
HandoffRequestStep ==
    \/ lastOp'.op = "data" /\ RequestedBy(lastOp'.data).asks
    \/ lastOp'.op = "orchestrator-command" /\ lastOp'.data \in HandoffCommandTexts

\* the requested handoff took place on session id: its process got the notice
HandedOff(id) == HandoffRequestStep /\ WritesTo(log', id) # <<>>

\* C15: every successful handoff of a session, by directive or by output,
\* appends one transition to the end of its history and leaves the earlier
\* ones as they were; nothing else changes the history of a session that stays
\* registered; and the record's current agent is the to-agent of the last
\* transition, each transition starting from the agent the one before led to.
C15_HistoryCountsHandoffs ==
    [][ \A id \in Ids :
          LET h == HistoryOf(agentHandoffs, id)
              h2 == HistoryOf(agentHandoffs', id)
          IN  /\ HandedOff(id)
                   => /\ Len(h2) = Len(h) + 1
                      /\ SubSeq(h2, 1, Len(h)) = h
                      /\ agentHandoffs'[id].currentAgent = h2[Len(h2)].toAgent
              /\ (~HandedOff(id) /\ Registered(terminals', id))
                   => RecordOf(agentHandoffs', id) = RecordOf(agentHandoffs, id)
              /\ id \in DOMAIN agentHandoffs'
                   => /\ Len(h2) >= 1
                      /\ agentHandoffs'[id].currentAgent = h2[Len(h2)].toAgent
                      /\ \A k \in 2..Len(h2) : h2[k].fromAgent = h2[k - 1].toAgent
      ]_vars

C15_Witness ==
    \E id \in DOMAIN agentHandoffs :
       /\ Len(agentHandoffs[id].history) = 2
       /\ agentHandoffs[id].history[1].reason = "Orchestrator-initiated handoff"
       /\ agentHandoffs[id].history[2].reason = "Agent requested handoff"
       /\ agentHandoffs[id].currentAgent = agentHandoffs[id].history[2].toAgent

\* C16: for every registered session without a handoff, the status report
\* and the history query give the session's agent name as its current agent
\* and an empty history.
C16_NoHandoffCurrentAgent ==
    \A i \in 1..Len(terminals) :
       LET id == terminals[i].terminalId
       IN  HistoryLen(St, id) = 0
             => /\ getHandoffHistory(St, id).history = <<>>
                /\ StatusList(St)[i].handoffs = 0
                /\ getHandoffHistory(St, id).currentAgent = terminals[i].agentName
                /\ StatusList(St)[i].currentAgent = terminals[i].agentName

C16_Witness ==
    /\ lastOp.op = "orchestrator-command"
    /\ lastOp.data = Cmd_status
    /\ \E i \in 1..Len(terminals) :
          /\ terminals[i].agentName = Str_w
          /\ StatusList(St)[i].handoffs = 0
          /\ StatusList(St)[i].currentAgent = <<>>

\* the handler changed no session, no handoff record, and wrote to no process
NoHandoffEffect ==
    /\ agentHandoffs' = agentHandoffs
    /\ terminals' = terminals
    /\ Writes(log') = <<>>

\* C17: a handoff requested for a session that is not in the registry, by
\* the output of a process whose session is gone or by a directive naming
\* an agent no session matches, creates no handoff record, appends no
\* transition, renames no session and writes to no process; the directive is
\* answered with a failure.
C17_HandoffNotFound ==
    [][ /\ (lastOp'.op = "data" /\ RequestedBy(lastOp'.data).asks
              /\ ~Registered(terminals, lastOp'.id))
            => NoHandoffEffect
        /\ (lastOp'.op = "orchestrator-command"
              /\ lastOp'.data = HandoffText(Str_z, Str_r))
            => /\ NoHandoffEffect
               /\ OnlyFailure(log', "orchestrator-response")
      ]_vars

C17_Witness ==
    /\ lastOp.op = "data"
    /\ RequestedBy(lastOp.data).asks
    /\ Created(lastOp.id)
    /\ ~Registered(terminals, lastOp.id)
    /\ lastOp.id \notin DOMAIN agentHandoffs
    /\ Writes(log) = <<>>

\* C18: an output chunk of a registered session that carries a handoff
\* request appends exactly one transition to that session's history, to the
\* named agent, from the session's current agent, with the text after the
\* name as its message or the no-context default when there is none, and
\* changes no other session's record; a chunk without a request changes no
\* record.
C18_OutputTriggersHandoff ==
    [][ \A id \in Ids :
          (lastOp'.op = "data" /\ lastOp'.id = id /\ Registered(terminals, id))
            => LET req == RequestedBy(lastOp'.data)
                   h == HistoryOf(agentHandoffs, id)
                   h2 == HistoryOf(agentHandoffs', id)
               IN  IF req.asks
                   THEN /\ Len(h2) = Len(h) + 1
                        /\ SubSeq(h2, 1, Len(h)) = h
                        /\ h2[Len(h2)].toAgent = req.name
                        /\ h2[Len(h2)].fromAgent = CurrentAgentOf(terminals, agentHandoffs, id)
                        /\ h2[Len(h2)].message = req.message
                        /\ \A other \in Ids \ {id} :
                              RecordOf(agentHandoffs', other) = RecordOf(agentHandoffs, other)
                   ELSE agentHandoffs' = agentHandoffs
      ]_vars

C18_Witness ==
    /\ lastOp.op = "data"
    /\ lastOp.data = Str_handoffBare
    /\ lastOp.id \in DOMAIN agentHandoffs
    /\ LET h == agentHandoffs[lastOp.id].history
       IN  /\ Len(h) = 2
           /\ h[2].toAgent = <<"q">>
           /\ h[2].fromAgent = h[1].toAgent
           /\ h[2].message = Str_NoContext

\* the registered sessions whose process has not ended
AliveSessions(terms) == {id \in TermIds(terms) : procs[id].state = "running"}

\* the last message of the handler is a broadcast report with this success count
ReportsCount(lg, n) ==
    /\ Len(lg) > 0
    /\ lg[Len(lg)].kind = "send" /\ lg[Len(lg)].type = "orchestrator-response"
    /\ Len(lg[Len(lg)].data) = 3
    /\ lg[Len(lg)].data[1] = "Broadcast"
    /\ lg[Len(lg)].data[2] = DigitChar(n)

\* C19: a broadcast to a non-empty registry writes to every session whose
\* process is alive and reports as its success count the number of those
\* sessions; a session whose process has ended is not counted.
C19_BroadcastCountsAlive ==
    [][ (lastOp'.op = "orchestrator-command" /\ lastOp'.data = BroadcastText
           /\ Len(terminals) > 0)
          => /\ \A id \in AliveSessions(terminals) : WritesTo(log', id) # <<>>
             /\ ReportsCount(log', Cardinality(AliveSessions(terminals)))
      ]_vars

C19_Witness ==
    /\ lastOp.op = "orchestrator-command"
    /\ lastOp.data = BroadcastText
    /\ Len(terminals) = 2
    /\ Cardinality(AliveSessions(terminals)) = 1
    /\ ReportsCount(log, 2)

\* C20: a send directive that names n is written to the session created
\* with the name n, for every such session that is registered and has not
\* been renamed by a handoff, whatever other sessions are registered; when no
\* registered session is named n, the directive writes nothing and is
\* answered with a failure.
C20_LookupByName ==
    [][ \A n \in {Str_w, Str_t} :
          (lastOp'.op = "orchestrator-command" /\ lastOp'.data = SendText(n))
            => /\ \A id \in NamedSessions(terminals, n) :
                     HistoryLen(St, id) = 0
                       => /\ Len(Writes(log')) = 1
                          /\ Writes(log')[1].terminalId = id
               /\ NamedSessions(terminals, n) = {}
                     => /\ Writes(log') = <<>>
                        /\ OnlyFailure(log', "orchestrator-response")
      ]_vars

C20_Witness ==
    /\ lastOp.op = "orchestrator-command"
    /\ lastOp.data = SendText(Str_t)
    /\ NamedSessions(terminals, Str_t) # {}
    /\ Len(Writes(log)) = 1
    /\ Registered(terminals, Writes(log)[1].terminalId)
    /\ TermGet(terminals, Writes(log)[1].terminalId).agentName = Str_w

\* C21: after an orchestrator-init request the control session, if there is
\* one, is a session the request itself created: it was not in the registry
\* before the request.
C21_ControlSessionIsNew ==
    [][ (lastOp'.op = "orchestrator-init" /\ orchestratorTerminal' # NoTerminal)
          => /\ ~Registered(terminals, orchestratorTerminal')
             /\ Registered(terminals', orchestratorTerminal')
      ]_vars

C21_Witness ==
    /\ lastOp.op = "orchestrator-init"
    /\ orchestratorTerminal # NoTerminal
    /\ Registered(terminals, orchestratorTerminal)
    /\ TermGet(terminals, orchestratorTerminal).agentName = Str_w
    /\ \E i \in 1..Len(log) : log[i].type = "terminal-created" /\ ~log[i].success

\* C28: the exit event of a process whose session is no longer in the
\* registry changes no registry entry, timer or handoff record and sends no
\* message to any client.
C28_LateExitIsNoOp ==
    [][ (lastOp'.op = "exit" /\ ~Registered(terminals, lastOp'.id))
          => /\ Untouched
             /\ Sends(log') = <<>>
      ]_vars

C28_Witness ==
    /\ lastOp.op = "exit"
    /\ lastOp.id \in destroyed
    /\ Len(Sends(log)) = 1
    /\ Sends(log)[1].type = "terminal-exit"

\* the handler told the client of a failure: a message with success:false and
\* an error text
ReportsFailure(lg, ws) ==
    \E i \in 1..Len(lg) :
       lg[i].kind = "send" /\ lg[i].to = ws /\ ~lg[i].success /\ lg[i].error # ""

\* C30: a terminal-input, terminal-command or terminal-destroy request that
\* names a session not in the registry, a create request at capacity, a
\* control-session chunk when there is no control session, and an
\* orchestrator command without a command text are each answered to the
\* requesting client with success:false and an error text.
C30_NoSilentFailure ==
    [][ ( \/ /\ lastOp'.op \in {"terminal-input", "terminal-command", "terminal-destroy"}
             /\ ~Registered(terminals, lastOp'.id)
          \/ lastOp'.op = "terminal-create" /\ Len(terminals) >= maxTerminals
          \/ lastOp'.op = "control-input" /\ orchestratorTerminal = NoTerminal
          \/ lastOp'.op = "orchestrator-command" /\ lastOp'.data = <<>> )
          => ReportsFailure(log', lastOp'.ws)
      ]_vars

C30_Witness ==
    /\ lastOp.op = "terminal-input"
    /\ ~Registered(terminals, lastOp.id)
    /\ log = <<>>

\* C29: a create request below capacity for a local session whose process
\* cannot be started is answered with one terminal-created message with
\* success:false and an error text, and adds no registry entry, no eviction
\* timer and no handoff record; no process exists for it afterwards.
C29_SpawnFailureLeavesNothing ==
    [][ (lastOp'.op = "terminal-create-unspawned" /\ Len(terminals) < maxTerminals)
          => /\ OnlyFailure(log', "terminal-created")
             /\ log'[1].to = lastOp'.ws
             /\ log'[1].error # ""
             /\ Untouched
             /\ \A id \in Ids : procs'[id].state = procs[id].state
      ]_vars

C29_Witness ==
    /\ lastOp.op = "terminal-create-unspawned"
    /\ Len(terminals) < maxTerminals
    /\ OnlyFailure(log, "terminal-created")
    /\ log[1].error = "spawn failed"

\* the terminal-output messages among the messages a handler sent
Outputs(lg) == SelectSeq(lg, LAMBDA e : e.kind = "send" /\ e.type = "terminal-output")

\* C27: each output chunk a session's process emits is sent to the session's
\* client as one terminal-output message carrying the session's id and the
\* chunk as it came, within the handling of that chunk and so before any
\* later chunk of any session; no other event sends a terminal-output.
C27_OutputInOrder ==
    [][ IF lastOp'.op = "data"
        THEN /\ Len(Outputs(log')) = 1
             /\ Outputs(log')[1].to = procs[lastOp'.id].clientWs
             /\ Outputs(log')[1].terminalId = lastOp'.id
             /\ Outputs(log')[1].data = lastOp'.data
        ELSE Outputs(log') = <<>>
      ]_vars

C27_Witness ==
    /\ lastOp.op = "data"
    /\ lastOp.data = Str_handoffChunk
    /\ Len(Outputs(log)) = 1
    /\ Outputs(log)[1].data = Str_handoffChunk
    /\ \E other \in Ids \ {lastOp.id} : procs[other].state = "running"

\* the entries of one kind among what a handler did
Of(lg, kind) == SelectSeq(lg, LAMBDA e : e.kind = kind)

\* the first n entries of lg are the invocations, for connection ws, of the
\* first n functions of fns, and no later entry is an invocation of that kind
RanInOrder(lg, kind, ws, fns, n) ==
    /\ n <= Len(lg)
    /\ \A i \in 1..Len(lg) : (lg[i].kind = kind) <=> (i <= n)
    /\ \A i \in 1..n : lg[i].type = fns[i].name /\ lg[i].to = ws

\* the frame parses to a message whose type can be read
Parsed(data) == IsJSON(data) /\ JSONParse(data) # Null

\* every registered middleware invokes its continuation
ChainPasses(r) == \A i \in 1..Len(r.middleware) : r.middleware[i].kind = "next"

\* the first middleware that does not invoke its continuation, 0 if none
FirstStop(r) ==
    IF ChainPasses(r) THEN 0
    ELSE CHOOSE i \in 1..Len(r.middleware) :
            /\ r.middleware[i].kind # "next"
            /\ \A j \in 1..(i - 1) : r.middleware[j].kind = "next"

\* lg is one error message for connection ws with the given text
OneError(lg, ws, error) ==
    /\ Len(lg) = 1
    /\ lg[1].kind = "send" /\ lg[1].to = ws /\ lg[1].type = "error" /\ lg[1].error = error

\* C22: a text frame that is not JSON is answered with exactly one error
\* message to its sender and reaches no middleware and no handler; the
\* connection stays open and the router is as it was, and a later frame on
\* that connection that parses, passes every middleware and has a handler
\* reaches every middleware in order and then its handler, once.
C22_MalformedFrame ==
    [][ lastOp'.op = "message"
          => /\ ~IsJSON(lastOp'.data)
                  => /\ OneError(log', lastOp'.ws, "Invalid message format")
                     /\ readyState'[lastOp'.ws] = OPEN
                     /\ router' = router
             /\ ( /\ lastOp'.ws \in rejected
                  /\ Parsed(lastOp'.data)
                  /\ ChainPasses(router)
                  /\ JSONParse(lastOp'.data).type \in DOMAIN router.handlers )
                  => /\ RanInOrder(log', "middleware", lastOp'.ws, router.middleware,
                                   Len(router.middleware))
                     /\ Len(Of(log', "handler")) = 1
                     /\ log'[Len(router.middleware) + 1].kind = "handler"
                     /\ log'[Len(router.middleware) + 1].type
                           = router.handlers[JSONParse(lastOp'.data).type].name
                     /\ \A i \in 1..Len(log') : log'[i].error # "Invalid message format"
      ]_vars

C22_Witness ==
    /\ lastOp.op = "message"
    /\ lastOp.ws \in rejected
    /\ Parsed(lastOp.data)
    /\ Len(router.middleware) = MaxMiddleware
    /\ Len(log) = MaxMiddleware + 1
    /\ log[Len(log)].kind = "handler" /\ log[Len(log)].success

\* C23: a parsed message whose type has no registered handler reaches no
\* handler and leaves the connection open; when every middleware invokes its
\* continuation, all of them run, in order, and then exactly one "Unknown
\* message type" error naming the type is sent to the sender; no such error is
\* sent when the chain stops before the end.
C23_UnknownType ==
    [][ ( /\ lastOp'.op = "message"
          /\ Parsed(lastOp'.data)
          /\ JSONParse(lastOp'.data).type \notin DOMAIN router.handlers )
          => /\ Of(log', "handler") = <<>>
             /\ readyState'[lastOp'.ws] = OPEN
             /\ IF ChainPasses(router)
                THEN /\ RanInOrder(log', "middleware", lastOp'.ws, router.middleware,
                                   Len(router.middleware))
                     /\ OneError(Sends(log'), lastOp'.ws, "Unknown message type")
                     /\ Sends(log')[1].data = <<JSONParse(lastOp'.data).type>>
                     /\ log'[Len(log')].kind = "send"
                ELSE \A i \in 1..Len(log') : log'[i].error # "Unknown message type"
      ]_vars

C23_Witness ==
    /\ lastOp.op = "message"
    /\ lastOp.data = <<"{", "type", ":", "nope", "}">>
    /\ DOMAIN router.handlers # {}
    /\ Len(router.middleware) = MaxMiddleware
    /\ Len(log) = MaxMiddleware + 1
    /\ log[Len(log)].error = "Unknown message type"

C25_CloseRunsCallbacks ==
    [][ lastOp'.op = "close"
          => /\ Len(log') = Len(router.onDisconnectionCallbacks)
             /\ RanInOrder(log', "callback", lastOp'.ws, router.onDisconnectionCallbacks,
                           Len(router.onDisconnectionCallbacks))
      ]_vars

C25_Witness ==
    /\ lastOp.op = "close"
    /\ Len(log) = MaxCallbacks
    /\ ~log[1].success
    /\ log[2].kind = "callback" /\ log[2].success

\* the connections of a list that are open
OpenOf(connections, rs) ==
    {i \in 1..Len(connections) : connections[i] # NoSocket /\ rs[connections[i]] = OPEN}

\* C26: a broadcast returns the number of connections of its list that are
\* open; it sends the message once to each of these and to no other
\* connection, and a closed or missing connection in the list neither stops
\* it nor changes any connection.
C26_BroadcastCounts ==
    [][ lastOp'.op = "broadcast"
          => LET connections == lastOp'.data
                 open == OpenOf(connections, readyState)
             IN  /\ Len(Of(log', "return")) = 1
                 /\ log'[Len(log')].kind = "return"
                 /\ log'[Len(log')].data = <<Cardinality(open)>>
                 /\ Len(Sends(log')) = Cardinality(open)
                 /\ \A i \in open :
                       Cardinality({j \in 1..Len(log') :
                                       /\ log'[j].kind = "send"
                                       /\ log'[j].to = connections[i]
                                       /\ log'[j].type = "notice"}) = 1
                 /\ readyState' = readyState
      ]_vars

C26_Witness ==
    /\ lastOp.op = "broadcast"
    /\ Len(lastOp.data) = 3
    /\ lastOp.data[1] # NoSocket /\ readyState[lastOp.data[1]] = CLOSED
    /\ lastOp.data[3] # NoSocket /\ readyState[lastOp.data[3]] = OPEN
    /\ Len(Sends(log)) = 1
    /\ log[Len(log)].data = <<1>>

\* C31: in every reachable state the registry holds at most maxTerminals
\* sessions, whatever order create requests of two connections, spawn
\* directives, init requests, destroys, exits and evictions come in.
C31_RegistryWithinCapacity == Len(terminals) <= maxTerminals

C31_Witness ==
    /\ lastOp.op = "orchestrator-command"
    /\ Len(terminals) = maxTerminals
    /\ \E i \in 1..Len(log) : log[i].type = "orchestrator-response" /\ ~log[i].success
    /\ \E i \in 1..Len(terminals) : terminals[i].clientWs = "c2"

\* C32: between events the sessions of the registry are exactly the ids with
\* a stored timeout, each has exactly one pending timer, the stored one, no
\* timer is pending for any other id, and every handoff record belongs to a
\* session of the registry.
C32_TimersAndRecordsFollowRegistry ==
    /\ DOMAIN terminalTimeouts = TermIds(terminals)
    /\ {t.tid : t \in timers} = TermIds(terminals)
    /\ \A tid \in TermIds(terminals) :
          {t.h : t \in {u \in timers : u.tid = tid}} = {terminalTimeouts[tid]}
    /\ DOMAIN agentHandoffs \subseteq TermIds(terminals)

C32_Witness ==
    /\ lastOp.op = "data"
    /\ lastOp.id \in DOMAIN agentHandoffs
    /\ destroyed # {}
    /\ \E id \in destroyed : procs[id].state = "reaped"
    /\ Cardinality(timers) = 1

\* C33: when a connection sends a terminator to the control session, the
\* line that is classified is the text that connection sent since its
\* previous terminator: the step echoes that line as a directive exactly
\* when its first word is in the interceptor's table, whatever other
\* connections sent in between.
C33_LinePerConnection ==
    [][ ( /\ lastOp'.op = "control-input"
          /\ orchestratorTerminal # NoTerminal
          /\ HasTerminator(lastOp'.data) )
          => LET line == Trim(sentSince[lastOp'.ws] \o lastOp'.data)
             IN  IsInterceptedLine(line)
                   <=> /\ Writes(log') # <<>>
                       /\ Writes(log')[1].data = line \o <<"\r", "\n">>
      ]_vars

C33_Witness ==
    /\ lastOp.op = "control-input"
    /\ lastOp.ws = "c1"
    /\ HasTerminator(lastOp.data)
    /\ sentSince["c2"] = <<"x">>
    /\ Len(Writes(log)) = 1
    /\ Writes(log)[1].data = lastOp.data

\* C34: once the control session is no longer in the registry, control-
\* session input that arrives is not written to the removed session's
\* process: no chunk, no echo and no prompt.
C34_NoWriteToRemovedControl ==
    [][ ( /\ lastOp'.op = "control-input"
          /\ orchestratorTerminal # NoTerminal
          /\ ~Registered(terminals, orchestratorTerminal) )
          => \A i \in 1..Len(log') :
                log'[i].kind = "write" => log'[i].terminalId # orchestratorTerminal
      ]_vars

C34_Witness ==
    /\ lastOp.op = "control-input"
    /\ HasTerminator(lastOp.data)
    /\ orchestratorTerminal # NoTerminal
    /\ terminals = <<>>
    /\ Len(Writes(log)) >= 2
    /\ Writes(log)[Len(Writes(log))].terminalId = orchestratorTerminal
    /\ Writes(log)[Len(Writes(log))].data = Str_prompt

\* the text of the orchestrator-response messages among what a handler sent
Responses(lg) ==
    SelectSeq(lg, LAMBDA e : e.kind = "send" /\ e.type = "orchestrator-response")

\* C35: a terminated control-session line that the interceptor classifies as
\* a directive is executed by the dispatcher: it is never answered "Command
\* not recognized", and a line whose first token is status is answered with
\* the status report.
C35_ClassifierAgreesWithDispatcher ==
    [][ ( /\ lastOp'.op = "control-input"
          /\ orchestratorTerminal # NoTerminal
          /\ HasTerminator(lastOp'.data)
          /\ IsInterceptedLine(Trim(inputBuffer \o lastOp'.data)) )
          => /\ \A i \in 1..Len(Responses(log')) :
                   Responses(log')[i].data # <<"Command not recognized">>
             /\ ToLowerCase(FirstWord(Trim(inputBuffer \o lastOp'.data))) = Cmd_status
                   => \E i \in 1..Len(Responses(log')) :
                         Responses(log')[i].data = <<"Agent Status">>
      ]_vars

C35_Witness ==
    /\ lastOp.op = "control-input"
    /\ lastOp.data = <<"\r">>
    /\ Len(Writes(log)) = 2
    /\ Writes(log)[1].data = Cmd_spawn \o <<" ">> \o Str_w \o <<"\r", "\n">>
    /\ Len(Responses(log)) = 1
    /\ Responses(log)[1].data = <<"Command not recognized">>
    /\ ~Responses(log)[1].success

\* the success responses of the spawn directives
SpawnSuccess(lg) ==
    {i \in 1..Len(Responses(lg)) :
        /\ Responses(lg)[i].success
        /\ Responses(lg)[i].data \in {<<"Spawning agent">>, <<"Spawning Claude agent">>}}

\* C36: an orchestrator-response with success:true for a spawn directive is
\* sent only when the directive registered a new session: the registry has
\* grown by one session and no terminal-created failure was sent in the same
\* handling.
C36_SpawnSuccessMeansCreated ==
    [][ SpawnSuccess(log') # {}
          => /\ Len(terminals') = Len(terminals) + 1
             /\ TermIds(terminals') # TermIds(terminals)
             /\ \A i \in 1..Len(log') :
                   (log'[i].kind = "send" /\ log'[i].type = "terminal-created")
                      => log'[i].success
      ]_vars

C36_Witness ==
    /\ lastOp.op = "orchestrator-command"
    /\ lastOp.data = Cmd_spawn_claude \o Sep \o Str_w
    /\ SpawnSuccess(log) # {}
    /\ terminals = <<>>
    /\ \E i \in 1..Len(log) :
          log[i].type = "terminal-created" /\ ~log[i].success /\ log[i].error = "spawn failed"

\* C37: handling the terminator of an intercepted line first writes the echo
\* of the line, then runs the action with all its output, and writes the
\* prompt last: the echo is the first entry of the handling, the prompt the
\* last one, everything the action sends or writes lies between them, neither
\* the echo nor the prompt is repeated in between, and the line buffer is empty
\* once the line has been taken.
C37_EchoActionPrompt ==
    [][ (/\ lastOp'.op = "control-input"
         /\ orchestratorTerminal # NoTerminal
         /\ HasTerminator(lastOp'.data)
         /\ IsInterceptedLine(Trim(inputBuffer \o lastOp'.data)))
          => LET line == Trim(inputBuffer \o lastOp'.data)
                 n == Len(log')
             IN  /\ n >= 2
                 /\ log'[1].kind = "write"
                 /\ log'[1].terminalId = orchestratorTerminal
                 /\ log'[1].data = line \o <<"\r", "\n">>
                 /\ log'[n].kind = "write"
                 /\ log'[n].terminalId = orchestratorTerminal
                 /\ log'[n].data = Str_prompt
                 /\ \A i \in 2..(n - 1) :
                       ~(log'[i].kind = "write" /\ log'[i].data = Str_prompt)
                 /\ inputBuffer' = <<>>
      ]_vars

C37_Witness ==
    /\ lastOp.op = "control-input"
    /\ lastOp.data = <<"\r">>
    /\ Len(log) = 3
    /\ log[1].kind = "write" /\ log[1].data = Cmd_status \o <<"\r", "\n">>
    /\ log[2].kind = "send" /\ log[2].type = "orchestrator-response"
    /\ log[2].data = <<"Agent Status">>
    /\ log[3].kind = "write" /\ log[3].data = Str_prompt

\* the transitions of a record form a chain that ends at the current agent
IsChain(record) ==
    /\ record.history # <<>>
    /\ \A i \in 2..Len(record.history) :
          record.history[i].fromAgent = record.history[i - 1].toAgent
    /\ record.history[Len(record.history)].toAgent = record.currentAgent

\* C39: after every step each HandoffRecord is a chain whose current agent is
\* the session's stored agent name; a record that a step creates starts from
\* the name the session carried until then, a session without a record keeps
\* the name it was created with, and a step only ever appends to the
\* transitions of a session that stays registered.
C39_HandoffChain ==
    [][ /\ \A tid \in DOMAIN agentHandoffs' :
              /\ IsChain(agentHandoffs'[tid])
              /\ Registered(terminals', tid)
                    => TermGet(terminals', tid).agentName = agentHandoffs'[tid].currentAgent
        /\ \A tid \in TermIds(terminals) \cap TermIds(terminals') :
              IF tid \in DOMAIN agentHandoffs
              THEN /\ tid \in DOMAIN agentHandoffs'
                   /\ Len(agentHandoffs'[tid].history) >= Len(agentHandoffs[tid].history)
                   /\ SubSeq(agentHandoffs'[tid].history, 1, Len(agentHandoffs[tid].history))
                         = agentHandoffs[tid].history
              ELSE IF tid \in DOMAIN agentHandoffs'
              THEN agentHandoffs'[tid].history[1].fromAgent = TermGet(terminals, tid).agentName
              ELSE TermGet(terminals', tid).agentName = TermGet(terminals, tid).agentName
        /\ \A tid \in TermIds(terminals') \ TermIds(terminals) :
              /\ tid \notin DOMAIN agentHandoffs'
              /\ lastOp'.op = "terminal-create"
                    => TermGet(terminals', tid).agentName = lastOp'.data
      ]_vars

C39_Witness ==
    \E tid \in DOMAIN agentHandoffs :
       /\ Registered(terminals, tid)
       /\ Len(agentHandoffs[tid].history) = 2
       /\ agentHandoffs[tid].history[1].fromAgent = Str_w
       /\ agentHandoffs[tid].history[1].toAgent = Str_r
       /\ agentHandoffs[tid].history[2].fromAgent = Str_r
       /\ TermGet(terminals, tid).agentName = agentHandoffs[tid].currentAgent
       /\ lastOp.id = tid

\* a pool of two sessions whose members come and go: creates with and without
\* an agent name, destroys, exits and evictions
PoolMessages ==
    { [agentType |-> "claude", mcpServers |-> FALSE, agentName |-> name,
       connectionType |-> ""] : name \in {<<>>, Str_w} }

NextInstances ==
    \/ \E ws \in Conns, message \in PoolMessages : PoolCreate(ws, message)
    \/ \E ws \in Conns, tid \in PoolIds : TerminalDestroy(ws, tid)
    \/ \E tid \in PoolIds : ProcessDies(tid)
    \/ \E tid \in PoolIds : PtyExit(tid)
    \/ \E t \in timers : TimeoutFires(t)
    \/ Tick

SpecInstances == InitPool /\ [][NextInstances]_vars

\* C40: the sessions registered at the same time carry different instance
\* numbers, and with them different default agent names.
C40_DistinctInstanceNumbers ==
    \A i, j \in 1..Len(terminals) :
       i # j => /\ terminals[i].instanceNumber # terminals[j].instanceNumber
                /\ terminals[i].agentName # terminals[j].agentName
                      \/ terminals[i].agentName = Str_w

C40_Witness ==
    /\ lastOp.op = "terminal-create"
    /\ Len(terminals) = 2
    /\ terminals[1].terminalId # terminals[2].terminalId
    /\ terminals[1].instanceNumber = 2
    /\ terminals[2].instanceNumber = 2
    /\ terminals[1].agentName = DefaultAgentName(TRUE, 2)
    /\ terminals[2].agentName = DefaultAgentName(TRUE, 2)

\* sessions whose output history is kept, MaxOutputBuffer entries deep where
\* the program keeps 1000: the services as constructed, a session that is
\* created, produces output and ends by destroy or exit
InitBuffer ==
    /\ maxTerminals = MaxTerminals
    /\ terminals = <<>>
    /\ terminalTimeouts = EmptyMap
    /\ agentHandoffs = EmptyMap
    /\ timers = {}
    /\ procs = [k \in Ids |-> [state |-> "none", clientWs |-> "-"]]
    /\ nextId = 1
    /\ orchestratorTerminal = NoTerminal
    /\ inputBuffer = <<>>
    /\ typedLine = <<>>
    /\ destroyed = {}
    /\ router = [handlers |-> EmptyMap, middleware |-> <<>>, onDisconnectionCallbacks |-> <<>>]
    /\ readyState = [ws \in Sockets |-> OPEN]
    /\ rejected = {}
    /\ outputBufferLimit = MaxOutputBuffer
    /\ sentSince = [ws \in Sockets |-> <<>>]
    /\ log = <<>>
    /\ lastOp = [op |-> "init", ws |-> "-", id |-> NoTerminal, data |-> <<>>]

\* the chunk with a handoff request leaves its trace in the handoff record
BufferChunks == { <<"o">>, <<"x">>, Str_handoffChunk }

NextBuffer ==
    \/ \E ws \in Conns :
          TerminalCreate(ws, [agentType |-> "claude", mcpServers |-> FALSE,
                              agentName |-> Str_w, connectionType |-> ""], TRUE)
    \/ \E tid \in Ids, data \in BufferChunks : PtyData(tid, data)
    \/ \E ws \in Conns, tid \in Ids : TerminalDestroy(ws, tid)
    \/ \E tid \in Ids : ProcessDies(tid)
    \/ \E tid \in Ids : PtyExit(tid)

SpecBuffer == InitBuffer /\ [][NextBuffer]_vars

\* C38: a session's output history never holds more than the limit; a chunk
\* arriving below the limit is appended, a chunk arriving at the limit takes
\* the place of the oldest entry and the others keep their order; either way
\* the chunk is sent to the session's client.
C38_OutputHistoryBounded ==
    [][ /\ \A i \in 1..Len(terminals') : Len(terminals'[i].outputBuffer) <= outputBufferLimit
        /\ (lastOp'.op = "data" /\ Registered(terminals, lastOp'.id))
              => LET before == TermGet(terminals, lastOp'.id).outputBuffer
                     after == TermGet(terminals', lastOp'.id).outputBuffer
                 IN  /\ after = IF Len(before) < outputBufferLimit
                                THEN Append(before, lastOp'.data)
                                ELSE Append(Tail(before), lastOp'.data)
                     /\ \E k \in 1..Len(log') :
                           /\ log'[k].kind = "send"
                           /\ log'[k].type = "terminal-output"
                           /\ log'[k].data = lastOp'.data
                           /\ log'[k].to = TermGet(terminals, lastOp'.id).clientWs
        /\ (lastOp'.op # "data")
              => \A tid \in TermIds(terminals) \cap TermIds(terminals') :
                    TermGet(terminals', tid).outputBuffer = TermGet(terminals, tid).outputBuffer
      ]_vars

C38_Witness ==
    /\ lastOp.op = "data"
    /\ lastOp.data = <<"x">>
    /\ Registered(terminals, lastOp.id)
    /\ outputBufferLimit = MaxOutputBuffer
    /\ lastOp.id \in DOMAIN agentHandoffs
    /\ LET outputBuffer == TermGet(terminals, lastOp.id).outputBuffer
       IN  /\ Len(outputBuffer) = outputBufferLimit
           /\ \A i \in 1..Len(outputBuffer) : outputBuffer[i] # Str_handoffChunk
           /\ outputBuffer[Len(outputBuffer)] = <<"x">>
           /\ outputBuffer[1] = <<"o">>
    /\ \E k \in 1..Len(log) : log[k].type = "terminal-output" /\ log[k].data = <<"x">>

====
